---- MODULE Spec2Model ----
(***************************************************************************)
(* A model of the two HackerOS installers:                                 *)
(*   main installer   source-code/src/main.rs                              *)
(*   gaming edition   source-code/gaming-edition/src/main.rs               *)
(*                                                                         *)
(* Both are a key-event loop (run_app) over one InstallerState record,     *)
(* followed by a pipeline of external operations.  The variable `variant`  *)
(* says which of the two programs a behaviour is a run of.                 *)
(*                                                                         *)
(* Text is a sequence of tokens: a typed character is one token, a string  *)
(* literal of the source is one token, and format!/push/pop/clear are      *)
(* concatenation, Append, dropping the last token and <<>>.                *)
(* Option<T> is a sequence of length 0 (None) or 1 (Some(x)).              *)
(***************************************************************************)
EXTENDS Integers, Sequences, FiniteSets, TLC

VARIABLES
    variant,        \* "main" or "gaming": which binary runs
    firmware,       \* environment fact: "UEFI" or "BIOS" (is /sys/firmware/efi there)
    overflow_checks,\* build fact: does integer overflow panic (else it wraps)
    state,          \* the InstallerState record
    list_state,     \* ListState.selected(): None or Some(i)
    input_buffer,   \* main installer: run_app's input_buffer
    active_input,   \* main installer: run_app's active_input
    pc,             \* where the process is: "loop", "install" (main pipeline),
                    \* "handler" (gaming handler), "exited", "error", "panicked",
                    \* "deadlocked" (lock() of the state mutex that cannot return)
    ip,             \* index of the next pipeline step while pc = "install"
    ops,            \* the operations issued by the current pipeline run, in order
    failed,         \* some operation of the current run returned a failing outcome
    run_failed,     \* one issued after the handoff to the pipeline did (gaming edition:
                    \* with current_step at InstallSystem or later)
    moves,          \* how many times the operator left a pre-selected default
    todo,           \* gaming edition: what is left to do of the handler being run
    guards          \* gaming edition: the functions that hold a MutexGuard of the state

vars == <<variant, firmware, overflow_checks, state, list_state, input_buffer, active_input,
          pc, ip, ops, failed, run_failed, moves, todo, guards>>

(***************************************************************************)
(* Bounds of the model.                                                    *)
(***************************************************************************)
\* largest list cursor explored (the code itself has no upper limit)
MaxCursor == 8
\* how many times the operator leaves a pre-selected default: moves a list
\* cursor off its first item, empties a pre-filled field, answers 'n'
MaxMoves == 1

\* the characters the operator types, and the texts they are typed up to
Chars == {"a"}
Texts == {<<"a">>}

None == <<>>
Some(x) == <<x>>
Max(a, b) == IF a >= b THEN a ELSE b
Pop(s) == IF s = <<>> THEN s ELSE SubSeq(s, 1, Len(s) - 1)

(***************************************************************************)
(* Main installer: the wizard.                                             *)
(***************************************************************************)
Editions == <<"Official", "Gnome", "Xfce", "Blue", "Hydra", "Cybersecurity",
              "Wayfire", "Atomic">>
Branches == <<"Stable", "Testing", "Unstable">>
\* the match on the cursor at the filesystem step with its first two arms exchanged
Filesystems_exchanged == <<"Ext4", "Btrfs", "Zfs">>

Filesystems == <<"Btrfs", "Ext4", "Zfs">>
Timezones == <<"UTC", "America/New_York", "Europe/Warsaw">>
Locales == <<"en_US.UTF-8", "pl_PL.UTF-8">>

\* InstallerState::default()
MainDefault ==
    [ current_step |-> 0,
      username |-> <<>>,
      password |-> <<>>,
      root_password |-> <<>>,
      hostname |-> <<"hackeros">>,
      edition |-> None,
      branch |-> None,
      filesystem |-> None,
      manual_partition |-> FALSE,
      disk |-> <<>>,
      preview_image |-> FALSE,
      quit |-> FALSE,
      error_message |-> None,
      timezone |-> <<"UTC">>,
      locale |-> <<"en_US.UTF-8">> ]

\* The number of items of the list drawn at a step, 0 when the step draws no list.
ItemCount(st) ==
    CASE st.current_step = 4 -> Len(Editions)
      [] st.current_step = 5 -> Len(Branches)
      [] st.current_step = 6 -> IF st.edition = Some("Atomic") THEN 0 ELSE Len(Filesystems)
      [] st.current_step = 7 -> 2
      [] st.current_step = 10 -> Len(Timezones)
      [] st.current_step = 11 -> Len(Locales)
      [] OTHER -> 0

\* draw_ui: the only state it writes is the cursor, set to Some(0) by a list
\* step's draw function when nothing is selected.
draw_ui(st, ls) ==
    IF ItemCount(st) > 0 /\ ls = None THEN Some(0) ELSE ls

update_list_selection(ls, delta) ==
    IF ls # None THEN Some(Max(ls[1] + delta, 0)) ELSE ls

\* The four things the two Enter handlers write.
Handled(st, ls, ai, buf) ==
    [state |-> st, list_state |-> ls, active_input |-> ai, input_buffer |-> buf]

\* handle_selection_enter whose out-of-range arms also clear the cursor
handle_selection_enter_clears(st, ls, ai, buf) ==
    LET step == st.current_step
        early == Handled(st, None, ai, buf)
        \* falling out of the match: list_state.select(None)
        out(st2) == Handled(st2, None, ai, buf)
        next(st2) == out([st2 EXCEPT !.current_step = @ + 1])
    IN  CASE step = 0 -> next(st)
          [] step = 4 ->
                IF ls = None THEN out(st)
                ELSE IF ls[1] >= Len(Editions) THEN early
                ELSE LET e == Editions[ls[1] + 1]
                         st1 == [st EXCEPT !.edition = Some(e)]
                         st2 == IF e = "Atomic"
                                THEN [st1 EXCEPT !.filesystem = Some("Btrfs")]
                                ELSE st1
                     IN  next([st2 EXCEPT !.preview_image = TRUE])
          [] step = 5 ->
                IF ls = None THEN out(st)
                ELSE IF ls[1] >= Len(Branches) THEN early
                ELSE next([st EXCEPT !.branch = Some(Branches[ls[1] + 1])])
          [] step = 6 ->
                IF st.edition # Some("Atomic")
                THEN IF ls = None THEN out(st)
                     ELSE IF ls[1] >= Len(Filesystems) THEN early
                     ELSE next([st EXCEPT !.filesystem = Some(Filesystems[ls[1] + 1])])
                ELSE next(st)
          [] step = 7 ->
                IF ls = None THEN out(st)
                ELSE next([st EXCEPT !.manual_partition = (ls[1] = 1)])
          [] step = 10 ->
                IF ls = None THEN out(st)
                ELSE next([st EXCEPT !.timezone =
                              IF ls[1] < Len(Timezones)
                              THEN <<Timezones[ls[1] + 1]>> ELSE <<"UTC">>])
          [] step = 11 ->
                IF ls = None THEN out(st)
                ELSE next([st EXCEPT !.locale =
                              IF ls[1] < Len(Locales)
                              THEN <<Locales[ls[1] + 1]>> ELSE <<"en_US.UTF-8">>])
          [] step = 12 -> next(st)
          [] OTHER -> Handled(st, None, TRUE, <<>>)

handle_selection_enter(st, ls, ai, buf) ==
    LET step == st.current_step
        \* the early `return Ok(())` of an out-of-range match arm
        early == Handled(st, ls, ai, buf)
        \* falling out of the match: list_state.select(None)
        out(st2) == Handled(st2, None, ai, buf)
        next(st2) == out([st2 EXCEPT !.current_step = @ + 1])
    IN  CASE step = 0 -> next(st)
          [] step = 4 ->
                IF ls = None THEN out(st)
                ELSE IF ls[1] >= Len(Editions) THEN early
                ELSE LET e == Editions[ls[1] + 1]
                         st1 == [st EXCEPT !.edition = Some(e)]
                         st2 == IF e = "Atomic"
                                THEN [st1 EXCEPT !.filesystem = Some("Btrfs")]
                                ELSE st1
                     IN  next([st2 EXCEPT !.preview_image = TRUE])
          [] step = 5 ->
                IF ls = None THEN out(st)
                ELSE IF ls[1] >= Len(Branches) THEN early
                ELSE next([st EXCEPT !.branch = Some(Branches[ls[1] + 1])])
          [] step = 6 ->
                IF st.edition # Some("Atomic")
                THEN IF ls = None THEN out(st)
                     ELSE IF ls[1] >= Len(Filesystems) THEN early
                     ELSE next([st EXCEPT !.filesystem = Some(Filesystems[ls[1] + 1])])
                ELSE next(st)
          [] step = 7 ->
                IF ls = None THEN out(st)
                ELSE next([st EXCEPT !.manual_partition = (ls[1] = 1)])
          [] step = 10 ->
                IF ls = None THEN out(st)
                ELSE next([st EXCEPT !.timezone =
                              IF ls[1] < Len(Timezones)
                              THEN <<Timezones[ls[1] + 1]>> ELSE <<"UTC">>])
          [] step = 11 ->
                IF ls = None THEN out(st)
                ELSE next([st EXCEPT !.locale =
                              IF ls[1] < Len(Locales)
                              THEN <<Locales[ls[1] + 1]>> ELSE <<"en_US.UTF-8">>])
          [] step = 12 -> next(st)
          [] OTHER -> Handled(st, None, TRUE, <<>>)

\* handle_input_enter with a hostname confirm that starts the installation
handle_input_enter_jump(st, ls, ai, buf) ==
    IF buf # <<>>
    THEN LET step == st.current_step
             st2 == CASE step = 1 -> [st EXCEPT !.username = buf, !.current_step = @ + 1]
                      [] step = 2 -> [st EXCEPT !.password = buf, !.current_step = @ + 1]
                      [] step = 3 -> [st EXCEPT !.root_password = buf, !.current_step = @ + 1]
                      [] step = 8 -> [st EXCEPT !.disk = buf, !.current_step = @ + 1]
                      [] step = 9 -> [st EXCEPT !.hostname = buf, !.current_step = 13]
                      [] OTHER -> st
         IN  Handled(st2, ls, FALSE, <<>>)
    ELSE Handled(st, ls, ai, buf)

\* handle_input_enter whose `_` arm puts the default hostname back
handle_input_enter_late(st, ls, ai, buf) ==
    IF buf # <<>>
    THEN LET step == st.current_step
             st2 == CASE step = 1 -> [st EXCEPT !.username = buf, !.current_step = @ + 1]
                      [] step = 2 -> [st EXCEPT !.password = buf, !.current_step = @ + 1]
                      [] step = 3 -> [st EXCEPT !.root_password = buf, !.current_step = @ + 1]
                      [] step = 8 -> [st EXCEPT !.disk = buf, !.current_step = @ + 1]
                      [] step = 9 -> [st EXCEPT !.hostname = buf, !.current_step = @ + 1]
                      [] OTHER -> [st EXCEPT !.hostname = <<"hackeros">>]
         IN  Handled(st2, ls, FALSE, <<>>)
    ELSE Handled(st, ls, ai, buf)

\* handle_input_enter without the test of an empty buffer
handle_input_enter_unguarded(st, ls, ai, buf) ==
    LET step == st.current_step
        st2 == CASE step = 1 -> [st EXCEPT !.username = buf, !.current_step = @ + 1]
                 [] step = 2 -> [st EXCEPT !.password = buf, !.current_step = @ + 1]
                 [] step = 3 -> [st EXCEPT !.root_password = buf, !.current_step = @ + 1]
                 [] step = 8 -> [st EXCEPT !.disk = buf, !.current_step = @ + 1]
                 [] step = 9 -> [st EXCEPT !.hostname =
                                     IF buf = <<>> THEN <<"hackeros">> ELSE buf,
                                   !.current_step = @ + 1]
                 [] OTHER -> st
    IN  Handled(st2, ls, FALSE, <<>>)

handle_input_enter(st, ls, ai, buf) ==
    IF buf # <<>>
    THEN LET step == st.current_step
             st2 == CASE step = 1 -> [st EXCEPT !.username = buf, !.current_step = @ + 1]
                      [] step = 2 -> [st EXCEPT !.password = buf, !.current_step = @ + 1]
                      [] step = 3 -> [st EXCEPT !.root_password = buf, !.current_step = @ + 1]
                      [] step = 8 -> [st EXCEPT !.disk = buf, !.current_step = @ + 1]
                      [] step = 9 -> [st EXCEPT !.hostname =
                                          IF buf = <<>> THEN <<"hackeros">> ELSE buf,
                                        !.current_step = @ + 1]
                      [] OTHER -> st
         IN  Handled(st2, ls, FALSE, <<>>)
    ELSE Handled(st, ls, ai, buf)

\* MainKey with an Esc that also goes back one step
MainKey_esc_back(ev, c, st, ls, ai, buf) ==
    CASE ev = "CtrlQ" -> Handled([st EXCEPT !.quit = TRUE], ls, ai, buf)
      [] ev = "Enter" -> IF ai THEN handle_input_enter(st, ls, ai, buf)
                         ELSE handle_selection_enter(st, ls, ai, buf)
      [] ev = "Up" -> Handled(st, IF ai THEN ls ELSE update_list_selection(ls, -1), ai, buf)
      [] ev = "Down" -> Handled(st, IF ai THEN ls ELSE update_list_selection(ls, 1), ai, buf)
      [] ev = "Char" -> Handled(st, ls, ai, IF ai THEN Append(buf, c) ELSE buf)
      [] ev = "Backspace" -> Handled(st, ls, ai, IF ai THEN Pop(buf) ELSE buf)
      [] ev = "Esc" -> Handled([st EXCEPT !.current_step = Max(@ - 1, 0)], ls, FALSE, <<>>)
      [] OTHER -> Handled(st, ls, ai, buf)

\* MainKey with an Esc that also dismisses the error
MainKey_esc_clears_error(ev, c, st, ls, ai, buf) ==
    CASE ev = "CtrlQ" -> Handled([st EXCEPT !.quit = TRUE], ls, ai, buf)
      [] ev = "Enter" -> IF ai THEN handle_input_enter(st, ls, ai, buf)
                         ELSE handle_selection_enter(st, ls, ai, buf)
      [] ev = "Up" -> Handled(st, IF ai THEN ls ELSE update_list_selection(ls, -1), ai, buf)
      [] ev = "Down" -> Handled(st, IF ai THEN ls ELSE update_list_selection(ls, 1), ai, buf)
      [] ev = "Char" -> Handled(st, ls, ai, IF ai THEN Append(buf, c) ELSE buf)
      [] ev = "Backspace" -> Handled(st, ls, ai, IF ai THEN Pop(buf) ELSE buf)
      [] ev = "Esc" -> Handled([st EXCEPT !.error_message = None], ls, FALSE, <<>>)
      [] OTHER -> Handled(st, ls, ai, buf)

\* What one key event does to (state, list_state, active_input, input_buffer);
\* ls is the cursor as the draw at the top of the loop iteration left it.
MainKey(ev, c, st, ls, ai, buf) ==
    CASE ev = "CtrlQ" -> Handled([st EXCEPT !.quit = TRUE], ls, ai, buf)
      [] ev = "Enter" -> IF ai THEN handle_input_enter(st, ls, ai, buf)
                         ELSE handle_selection_enter(st, ls, ai, buf)
      [] ev = "Up" -> Handled(st, IF ai THEN ls ELSE update_list_selection(ls, -1), ai, buf)
      [] ev = "Down" -> Handled(st, IF ai THEN ls ELSE update_list_selection(ls, 1), ai, buf)
      [] ev = "Char" -> Handled(st, ls, ai, IF ai THEN Append(buf, c) ELSE buf)
      [] ev = "Backspace" -> Handled(st, ls, ai, IF ai THEN Pop(buf) ELSE buf)
      [] ev = "Esc" -> Handled(st, ls, FALSE, <<>>)
      [] OTHER -> Handled(st, ls, ai, buf)


(***************************************************************************)
(* External operations.  A pipeline is a sequence of steps; a step is      *)
(*   "status"  Command::new(prog).args(args).status()? or .output()?       *)
(*   "spawn"   spawn with piped stdin, write_all(stdin), wait()?           *)
(*   "fs"      a std::fs call of the installer itself                      *)
(*   "net"     download_file                                               *)
(*   "git"     Repository::clone                                           *)
(*   "unwrap"  Option::unwrap() of the state field named by prog           *)
(* checked says whether the code looks at the exit status (.success());    *)
(* out is the text the operation returned, where the code reads it.        *)
(***************************************************************************)
Op(kind, prog, args, stdin, checked) ==
    [kind |-> kind, prog |-> prog, args |-> args, stdin |-> stdin, checked |-> checked,
     out |-> None]
Status(prog, args) == Op("status", prog, args, None, FALSE)
Spawn(prog, args, stdin) == Op("spawn", prog, args, Some(stdin), FALSE)
Fs(call, args) == Op("fs", call, args, None, FALSE)
Net(url, path) == Op("net", "download_file", <<url, path>>, None, FALSE)
Unwrap(field) == Op("unwrap", field, <<>>, None, FALSE)

\* What an operation can return: "ok" (exit status 0), "nonzero" (the process
\* ran and exited with another status), "error" (the process could not be
\* started, or the file / network call returned Err).
Outcomes(op) ==
    IF op.kind \in {"status", "spawn"} THEN {"ok", "nonzero", "error"} ELSE {"ok", "error"}

\* Whether the `?` (or the .success() test) after the operation returns Err.
ReturnsErr(op, outcome) ==
    outcome = "error" \/ (outcome = "nonzero" /\ op.checked)

\* e.to_string() of that Err: anyhow!("Command failed: {}", cmd) or the text of
\* the io::Error; the interpolated command is left as the placeholder, so that
\* the text tells the two kinds of failure apart and no more.
ErrText(op, outcome) ==
    IF outcome = "nonzero" THEN <<"Command failed: {cmd}">> ELSE <<"io error">>

(***************************************************************************)
(* Main installer: perform_installation and install_edition.               *)
(***************************************************************************)
branch_str(st) ==
    CASE st.branch = Some("Stable") -> "trixie"
      [] st.branch = Some("Testing") -> "forky"
      [] st.branch = Some("Unstable") -> "sid"
      [] OTHER -> "unwrap"

fs_cmd(st) ==
    CASE st.filesystem = Some("Btrfs") -> "mkfs.btrfs -f"
      [] st.filesystem = Some("Ext4") -> "mkfs.ext4"
      [] st.filesystem = Some("Zfs") -> "zpool create -f hackeros"
      [] OTHER -> "unwrap"

root_part(st) == st.disk \o <<"2">>
boot_part(st) == st.disk \o <<"1">>

\* chroot_cmd without the test of .success()
chroot_cmd_unchecked(cmd) ==
    Op("status", "chroot", <<<<"/mnt">>, <<"/bin/bash">>, <<"-c">>, cmd>>, None, FALSE)

\* the chroot_cmd closure of perform_installation: the exit status is checked
chroot_cmd(cmd) ==
    Op("status", "chroot", <<<<"/mnt">>, <<"/bin/bash">>, <<"-c">>, cmd>>, None, TRUE)

\* the chroot_cmd closure of install_edition: only `?` on the io::Result
edition_chroot_cmd(cmd) ==
    Op("status", "chroot", <<<<"/mnt">>, <<"/bin/bash">>, <<"-c">>, cmd>>, None, FALSE)

chmod_x(path) == Status("chroot", <<<<"/mnt">>, <<"chmod">>, <<"+x">>, path>>)

BindDirs == <<"/dev", "/proc", "/sys", "/run">>
MainUmountDirs == <<"/dev/pts", "/dev", "/proc", "/sys", "/run">>
BlueComponents == <<"wm", "shell", "launcher", "Desktop", "decorations", "core">>
HammerComponents == <<"hammer-updater", "hammer-tui", "hammer-core", "hammer-builder">>

\* the concatenation of the sequences f(1), ..., f(n)
RECURSIVE Flatten(_, _)
Flatten(f(_), n) == IF n = 0 THEN <<>> ELSE Flatten(f, n - 1) \o f(n)

install_edition(st) ==
    LET e == st.edition
        blue_home == <<"/mnt/home/">> \o st.username \o <<"/.hackeros/Blue-Environment/">>
        blue_one(i) ==
            << Net(<<"Blue-Environment/releases/download/v0.1/", BlueComponents[i]>>,
                   blue_home \o <<"/", BlueComponents[i]>>),
               chmod_x(<<"/home/">> \o st.username
                       \o <<"/.hackeros/Blue-Environment/", BlueComponents[i]>>) >>
        hammer_one(i) ==
            << Net(<<"hammer/releases/download/v0.5/", HammerComponents[i]>>,
                   <<"/mnt/usr/lib/HackerOS/hammer/", HammerComponents[i]>>),
               chmod_x(<<"/usr/lib/HackerOS/hammer/", HammerComponents[i]>>) >>
    IN  << Fs("copy_dir", <<<<"/usr/share/HackerOS-Installer/official/">>, <<"/mnt/">>>>) >>
        \o
        CASE e = Some("Official") ->
                << edition_chroot_cmd(<<"apt install -y task-kde-desktop sddm">>) >>
          [] e = Some("Gnome") ->
                << edition_chroot_cmd(<<"apt install -y task-gnome-desktop gdm3">>) >>
          [] e = Some("Xfce") ->
                << edition_chroot_cmd(<<"apt install -y task-xfce-desktop lightdm">>) >>
          [] e = Some("Blue") ->
                << Fs("create_dir_all", <<blue_home>>) >>
                \o Flatten(blue_one, Len(BlueComponents))
                \o << Net(<<"Blue-Environment/releases/download/v0.1/Blue-Environment">>,
                          <<"/mnt/usr/bin/Blue-Environment">>),
                      chmod_x(<<"/usr/bin/Blue-Environment">>),
                      Net(<<"Blue-Environment/main/Blue-Environment.desktop">>,
                          <<"/mnt/usr/share/wayland-sessions/Blue-Environment.desktop">>),
                      edition_chroot_cmd(<<"apt install -y sddm wayland">>) >>
          [] e = Some("Hydra") ->
                << Op("git", "clone", <<<<"hydra-look-and-feel.git">>,
                                        <<"/tmp/hydra-look-and-feel">>>>, None, FALSE),
                   Fs("copy_dir", <<<<"/tmp/hydra-look-and-feel/files/">>, <<"/mnt/">>>>),
                   Fs("remove_dir_all", <<<<"/tmp/hydra-look-and-feel">>>>) >>
          [] e = Some("Cybersecurity") ->
                << edition_chroot_cmd(
                       <<"apt install -y nmap wireshark metasploit-framework burpsuite">>) >>
          [] e = Some("Wayfire") ->
                << edition_chroot_cmd(<<"apt install -y wayfire sddm">>) >>
          [] e = Some("Atomic") ->
                << Net(<<"hammer/releases/download/v0.5/hammer">>, <<"/mnt/usr/bin/hammer">>),
                   chmod_x(<<"/usr/bin/hammer">>),
                   Fs("create_dir_all", <<<<"/mnt/usr/lib/HackerOS/hammer/">>>>) >>
                \o Flatten(hammer_one, Len(HammerComponents))
                \o << edition_chroot_cmd(<<"apt install -y task-kde-desktop sddm">>),
                      edition_chroot_cmd(<<"hammer setup">>) >>
          [] OTHER -> <<>>

\* The steps of perform_installation, in program order, for the answers in st.
perform_installation(st) ==
    LET bind_one(i) ==
            << Fs("create_dir_all", <<<<"/mnt", BindDirs[i]>>>>),
               Status("mount", <<<<"--bind">>, <<BindDirs[i]>>, <<"/mnt", BindDirs[i]>>>>) >>
        umount_one(i) == << Status("umount", <<<<"/mnt", MainUmountDirs[i]>>>>) >>
    IN  << Unwrap("branch"),
           Fs("write", <<<<"/etc/apt/sources.list">>, <<"deb ", branch_str(st), " main">>>>),
           Status("apt", <<<<"update">>, <<"-y">>>>),
           IF st.manual_partition
           THEN Status("cfdisk", <<st.disk>>)
           ELSE Spawn("sfdisk", <<st.disk>>, <<"label: gpt\n,512M,U\n,,L\n">>),
           Status("mkfs.fat", <<<<"-F32">>, boot_part(st)>>),
           Unwrap("filesystem"),
           Status("sh", <<<<"-c">>, <<fs_cmd(st), " ">> \o root_part(st)>>),
           Fs("create_dir_all", <<<<"/mnt">>>>),
           Status("mount", <<root_part(st), <<"/mnt">>>>),
           Fs("create_dir_all", <<<<"/mnt/boot/efi">>>>),
           Status("mount", <<boot_part(st), <<"/mnt/boot/efi">>>>),
           Status("debootstrap", <<<<branch_str(st)>>, <<"/mnt">>,
                                   <<"http://deb.debian.org/debian/">>>>) >>
        \o Flatten(bind_one, Len(BindDirs))
        \o << chroot_cmd(<<"apt update -y">>),
              chroot_cmd(<<"apt install -y linux-image-amd64 grub-efi-amd64 sudo locales tzdata">>),
              chroot_cmd(<<"echo '">> \o st.locale \o <<"' > /etc/locale.gen">>),
              chroot_cmd(<<"locale-gen">>),
              chroot_cmd(<<"ln -sf /usr/share/zoneinfo/">> \o st.timezone
                         \o <<" /etc/localtime">>),
              chroot_cmd(<<"hwclock --systohc">>),
              chroot_cmd(<<"passwd root">>),
              Spawn("chroot", <<<<"/mnt">>, <<"passwd">>, <<"root">>>>,
                    st.root_password \o <<"\n">> \o st.root_password \o <<"\n">>),
              chroot_cmd(<<"useradd -m -G sudo,wheel,audio,video -s /bin/bash ">>
                         \o st.username),
              Spawn("chroot", <<<<"/mnt">>, <<"passwd">>, st.username>>,
                    st.password \o <<"\n">> \o st.password \o <<"\n">>),
              Fs("write", <<<<"/mnt/etc/hostname">>, st.hostname>>),
              Fs("write", <<<<"/mnt/etc/hosts">>,
                            <<"127.0.0.1 localhost\n127.0.1.1 ">> \o st.hostname \o <<"\n">>>>),
              Unwrap("edition") >>
        \o install_edition(st)
        \o << chroot_cmd(<<"grub-install --target=x86_64-efi --efi-directory=/boot/efi --bootloader-id=HackerOS ">>
                         \o st.disk),
              chroot_cmd(<<"update-grub">>) >>
        \o Flatten(umount_one, Len(MainUmountDirs))
        \o << Status("umount", <<<<"/mnt/boot/efi">>>>),
              Status("umount", <<<<"/mnt">>>>),
              Fs("remove_dir_all", <<<<"/usr/share/HackerOS-Installer">>>>),
              Fs("remove_file", <<<<"/usr/bin/HackerOS-Installer">>>>),
              Fs("remove_file", <<<<"/etc/profile.d/HackerOS-Installer.sh">>>>),
              Status("reboot", <<>>) >>

(***************************************************************************)
(* Main installer: run_app.                                                *)
(***************************************************************************)
InitMain ==
    /\ variant = "main"
    /\ firmware \in {"UEFI", "BIOS"}
    \* the main installer has no arithmetic that can overflow
    /\ overflow_checks = FALSE
    /\ state = MainDefault
    /\ list_state = None
    /\ input_buffer = <<>>
    /\ active_input = FALSE
    /\ pc = "loop"
    /\ ip = 0
    /\ ops = <<>>
    /\ failed = FALSE
    /\ run_failed = FALSE
    /\ moves = 0
    /\ todo = <<>>
    /\ guards = <<>>

\* MainEvent with the test of current_step >= 13 before the test of quit
MainEvent_install_first(ev, c) ==
    /\ variant = "main"
    /\ pc = "loop"
    /\ LET h == MainKey(ev, c, state, draw_ui(state, list_state), active_input, input_buffer)
       IN  /\ state' = h.state
           /\ list_state' = h.list_state
           /\ active_input' = h.active_input
           /\ input_buffer' = h.input_buffer
           /\ IF h.state.current_step >= 13
              THEN /\ pc' = "install"
                   /\ ip' = 1
                   /\ ops' = <<>>
                   /\ failed' = FALSE
                   /\ run_failed' = FALSE
              ELSE IF h.state.quit
              THEN pc' = "exited" /\ UNCHANGED <<ip, ops, failed, run_failed>>
              ELSE pc' = "loop" /\ UNCHANGED <<ip, ops, failed, run_failed>>
    /\ UNCHANGED <<variant, firmware, overflow_checks, todo, guards>>

\* One iteration of run_app's loop up to the call of perform_installation:
\* draw, read one event, handle it, test quit, test current_step >= 13.
MainEvent(ev, c) ==
    /\ variant = "main"
    /\ pc = "loop"
    /\ LET h == MainKey(ev, c, state, draw_ui(state, list_state), active_input, input_buffer)
       IN  /\ state' = h.state
           /\ list_state' = h.list_state
           /\ active_input' = h.active_input
           /\ input_buffer' = h.input_buffer
           /\ IF h.state.quit
              THEN pc' = "exited" /\ UNCHANGED <<ip, ops, failed, run_failed>>
              ELSE IF h.state.current_step >= 13
              THEN \* perform_installation(state) is entered
                   /\ pc' = "install"
                   /\ ip' = 1
                   /\ ops' = <<>>
                   /\ failed' = FALSE
                   /\ run_failed' = FALSE
              ELSE pc' = "loop" /\ UNCHANGED <<ip, ops, failed, run_failed>>
    /\ UNCHANGED <<variant, firmware, overflow_checks, todo, guards>>

KeyCtrlQ == MainEvent("CtrlQ", "q") /\ UNCHANGED moves
KeyEnter == MainEvent("Enter", "") /\ UNCHANGED moves
KeyUp == MainEvent("Up", "") /\ UNCHANGED moves
KeyDown ==
    /\ variant = "main"
    /\ LET ls == draw_ui(state, list_state)
       IN  IF active_input \/ ls = None THEN moves' = moves
           ELSE IF ls[1] = 0 THEN moves < MaxMoves /\ moves' = moves + 1
           ELSE ls[1] < MaxCursor /\ moves' = moves
    /\ MainEvent("Down", "")
KeyChar ==
    \E c \in Chars :
        /\ active_input => Append(input_buffer, c) \in Texts
        /\ MainEvent("Char", c)
        /\ UNCHANGED moves
KeyBackspace == MainEvent("Backspace", "") /\ UNCHANGED moves
KeyEsc == MainEvent("Esc", "") /\ UNCHANGED moves
\* any other key, and any event that is not a key press
OtherEvent == MainEvent("Other", "") /\ UNCHANGED moves

\* One step of perform_installation, with the outcome the operation returns.
MainPipelineStep ==
    /\ variant = "main"
    /\ pc = "install"
    /\ LET prog == perform_installation(state)
           op == prog[ip]
       IN  IF op.kind = "unwrap"
           THEN /\ IF state[op.prog] = None
                   THEN pc' = "panicked" /\ ip' = ip
                   ELSE pc' = pc /\ ip' = ip + 1
                /\ UNCHANGED <<state, ops, failed, run_failed>>
           ELSE \E outcome \in Outcomes(op) :
                /\ ops' = Append(ops, op)
                /\ failed' = (failed \/ outcome # "ok")
                /\ run_failed' = failed'
                /\ IF ReturnsErr(op, outcome)
                   THEN \* run_app: state.error_message = Some(e.to_string())
                        /\ state' = [state EXCEPT
                                       !.error_message = Some(ErrText(op, outcome))]
                        /\ pc' = "loop"
                        /\ ip' = ip
                   ELSE IF ip = Len(prog)
                   THEN \* Ok(()): run_app breaks out of the loop
                        /\ pc' = "exited"
                        /\ ip' = ip
                        /\ state' = state
                   ELSE /\ pc' = pc
                        /\ ip' = ip + 1
                        /\ state' = state
    /\ UNCHANGED <<variant, firmware, overflow_checks, list_state, input_buffer,
                   active_input, moves, todo, guards>>

NextMain ==
    \/ KeyCtrlQ
    \/ KeyEnter
    \/ KeyUp
    \/ KeyDown
    \/ KeyChar
    \/ KeyBackspace
    \/ KeyEsc
    \/ OtherEvent
    \/ MainPipelineStep

SpecMain == InitMain /\ [][NextMain]_vars


(***************************************************************************)
(* Gaming edition: the state and the wizard.                               *)
(***************************************************************************)
\* usize::MAX, what 0usize - 1 wraps to in a build without overflow checks;
\* the largest integer TLC handles stands for 2^64 - 1
UsizeMax == 2147483647

GamingSteps == <<"Welcome", "CreateUser", "SelectLocale", "PartitionDisk", "SelectDesktop",
                 "ConfigureNetwork", "InstallSystem", "DetectGPU", "InstallKernel",
                 "Finalize", "Done">>

DefaultCountry == <<"Poland">>
DefaultTimezone == <<"Europe/Warsaw">>

\* InstallerState::default(); is_uefi is fs::metadata("/sys/firmware/efi").is_ok()
GamingDefault(fw) ==
    [ current_step |-> "Welcome",
      active_field |-> "None",
      username |-> <<>>,
      password |-> <<>>,
      country |-> DefaultCountry,
      timezone |-> DefaultTimezone,
      is_uefi |-> (fw = "UEFI"),
      auto_partition |-> TRUE,
      disks |-> <<>>,
      selected_disk |-> 0,
      disk_selected |-> FALSE,
      target_disk |-> <<>>,
      mount_point |-> <<"/mnt">>,
      desktop_env |-> <<"kde">>,
      network_configured |-> FALSE,
      gpu_type |-> <<>>,
      kernel_type |-> <<>>,
      progress |-> <<>> ]

Desktops == <<"kde", "gnome", "hydra">>

\* the match on desktop_env in ui: "kde" => 0, "gnome" => 1, "hydra" => 2, _ => 0
desktop_index(env) ==
    CASE env = <<"gnome">> -> 1
      [] env = <<"hydra">> -> 2
      [] OTHER -> 0

\* ui: what the draw at the top of run_app's loop does to the cursor
ui(st, ls) ==
    CASE st.current_step = "SelectDesktop" -> Some(desktop_index(st.desktop_env))
      [] st.current_step = "PartitionDisk" /\ ~st.disk_selected -> Some(st.selected_disk)
      [] OTHER -> ls

\* What is left of a handler is a sequence of instructions, run one by one:
\*   "cmd"       an external command, built by gaming_op when it is run
\*   "progress"  state.progress.push(marker)
\*   "assign"    state.field = value
\*   "lock"      let locked_state = state.lock().unwrap() in the function named
\*   "drop"      drop(locked_state), or the return of the function named
Cmd(n) == [i |-> "cmd", n |-> n, v |-> None]
Progress(marker) == [i |-> "progress", n |-> marker, v |-> None]
Assign(field, value) == [i |-> "assign", n |-> field, v |-> Some(value)]
Lock(who) == [i |-> "lock", n |-> who, v |-> None]
Drop(who) == [i |-> "drop", n |-> who, v |-> None]

\* The instructions on the mutex at the head of what is left, run at once:
\* the guards held after them and what is left then. lock() of a mutex the
\* thread already holds does not return: stuck, with the second guard asked for.
RECURSIVE settle(_, _)
settle(g, td) ==
    IF td = <<>> \/ Head(td).i \notin {"lock", "drop"}
    THEN [guards |-> g, todo |-> td, stuck |-> FALSE]
    ELSE IF Head(td).i = "drop"
    THEN settle(SelectSeq(g, LAMBDA w : w # Head(td).n), Tail(td))
    ELSE IF g # <<>>
    THEN [guards |-> Append(g, Head(td).n), todo |-> td, stuck |-> TRUE]
    ELSE settle(<<Head(td).n>>, Tail(td))

\* selected.split(' ').next().unwrap(): the tokens before the first " "
RECURSIVE first_word(_)
first_word(text) ==
    IF text = <<>> \/ Head(text) = " " THEN <<>>
    ELSE <<Head(text)>> \o first_word(Tail(text))

\* format!("/dev/{} ({})", parts[0], parts[1]) of one line of lsblk's output
disk_entry(parts) == <<"/dev/", parts[1], " ", "(", parts[2], ")">>

\* gaming_edit with an Enter on the first field that does not test is_empty()
gaming_edit_unchecked(st, code, c, fa, afa, fb, afb, done) ==
    LET af == st.active_field
    IN  IF code = "Char" /\ af = afa THEN [st EXCEPT ![fa] = Append(@, c)]
        ELSE IF code = "Backspace" /\ af = afa /\ st[fa] # <<>> THEN [st EXCEPT ![fa] = Pop(@)]
        ELSE IF code = "Enter" /\ af = afa THEN [st EXCEPT !.active_field = afb]
        ELSE IF code = "Char" /\ af = afb THEN [st EXCEPT ![fb] = Append(@, c)]
        ELSE IF code = "Backspace" /\ af = afb /\ st[fb] # <<>> THEN [st EXCEPT ![fb] = Pop(@)]
        ELSE IF code = "Enter" /\ st[fb] # <<>> /\ af = afb THEN done
        ELSE st

\* the two text fields of a wizard step: (field, its active_field tag)
gaming_edit(st, code, c, fa, afa, fb, afb, done) ==
    LET af == st.active_field
    IN  IF code = "Char" /\ af = afa THEN [st EXCEPT ![fa] = Append(@, c)]
        ELSE IF code = "Backspace" /\ af = afa /\ st[fa] # <<>> THEN [st EXCEPT ![fa] = Pop(@)]
        ELSE IF code = "Enter" /\ st[fa] # <<>> /\ af = afa
             THEN [st EXCEPT !.active_field = afb]
        ELSE IF code = "Char" /\ af = afb THEN [st EXCEPT ![fb] = Append(@, c)]
        ELSE IF code = "Backspace" /\ af = afb /\ st[fb] # <<>> THEN [st EXCEPT ![fb] = Pop(@)]
        ELSE IF code = "Enter" /\ st[fb] # <<>> /\ af = afb THEN done
        ELSE st

\* disks.len() - 1 on usize: `wraps` says whether the build wraps on overflow
\* (the other builds panic, which handle_key_event's caller models)
len_minus_one(n, wraps) == IF n = 0 /\ wraps THEN UsizeMax ELSE n - 1

\* perform_partitioning that mounts the partitions before it formats them
perform_partitioning_mount_first(st) ==
    <<Progress("Partitioning disk...")>>
    \o (IF st.auto_partition
        THEN (IF st.is_uefi
              THEN <<Cmd("parted mklabel gpt"), Cmd("parted mkpart ESP"),
                     Cmd("parted set esp"), Cmd("parted mkpart root"),
                     Cmd("create_dir_all boot"), Cmd("mount 2"), Cmd("mount 1 boot"),
                     Cmd("mkfs.fat"), Cmd("mkfs.ext4 2")>>
              ELSE <<Cmd("parted mklabel msdos"), Cmd("parted mkpart primary"),
                     Cmd("parted set boot"), Cmd("mount 1"), Cmd("mkfs.ext4 1")>>)
             \o <<Progress("Auto partitioning done.")>>
        ELSE <<Progress("Manual partitioning: please configure externally.")>>)
    \o <<Progress("Disk mounted.")>>

\* the steps of perform_partitioning
perform_partitioning(st) ==
    <<Progress("Partitioning disk...")>>
    \o (IF st.auto_partition
        THEN (IF st.is_uefi
              THEN <<Cmd("parted mklabel gpt"), Cmd("parted mkpart ESP"),
                     Cmd("parted set esp"), Cmd("parted mkpart root"),
                     Cmd("mkfs.fat"), Cmd("mkfs.ext4 2"), Cmd("create_dir_all boot"),
                     Cmd("mount 2"), Cmd("mount 1 boot")>>
              ELSE <<Cmd("parted mklabel msdos"), Cmd("parted mkpart primary"),
                     Cmd("parted set boot"), Cmd("mkfs.ext4 1"), Cmd("mount 1")>>)
             \o <<Progress("Auto partitioning done.")>>
        ELSE <<Progress("Manual partitioning: please configure externally.")>>)
    \o <<Progress("Disk mounted.")>>

configure_network == <<Cmd("dhclient"), Cmd("ping 1"), Cmd("ping 2"),
                       Progress("Network configured.")>>

\* perform_installation hands over to the function that takes the lock itself
handoff_keeps_guard(step, callee) ==
    <<Assign("current_step", step), Lock(callee)>>

handoff(step, callee) ==
    <<Assign("current_step", step), Drop("perform_installation"), Lock(callee)>>

gaming_perform_installation(st) ==
    <<Lock("perform_installation"),
      Progress("Starting installation..."),
      Cmd("rsync"),
      Progress("Base system copied."),
      Cmd("bind /dev"), Cmd("bind /proc"), Cmd("bind /sys"), Cmd("bind /run"),
      Cmd("useradd"),
      Progress("User created."),
      Cmd("timezone"),
      Progress("Locale set.")>>
    \o (CASE st.desktop_env = <<"kde">> -> <<Cmd("apt plasma")>>
          [] st.desktop_env = <<"gnome">> -> <<Cmd("apt gnome")>>
          [] st.desktop_env = <<"hydra">> ->
                <<Cmd("apt plasma"), Cmd("git clone hydra"), Cmd("cp hydra")>>
          [] OTHER -> <<>>)
    \o <<Progress("Desktop installed."),
         Cmd("HackerOS-Steam create"),
         Progress("HackerOS-Steam created."),
         Cmd("git clone gamescope"), Cmd("hl run"),
         Progress("Gamescope installed."),
         Cmd("cp icons"), Cmd("rm icons"),
         Progress("Icons copied.")>>
    \o handoff("DetectGPU", "detect_and_install_gpu")
    \o <<Cmd("lspci"),
         Progress("GPU drivers installed."),
         Drop("detect_and_install_gpu"),
         Lock("perform_installation")>>
    \o handoff("InstallKernel", "install_kernel")
    \o <<Cmd("read kernel.hacker"),
         Progress("Kernel installed."),
         Drop("install_kernel"),
         Lock("perform_installation"),
         Assign("current_step", "Finalize"),
         Progress("Installing bootloader."),
         Cmd("grub-install"), Cmd("grub-mkconfig"),
         Progress("Bootloader installed."),
         Cmd("umount /run"), Cmd("umount /sys"), Cmd("umount /proc"), Cmd("umount /dev"),
         Cmd("umount -R"),
         Progress("Installation finalized."),
         Assign("current_step", "Done"),
         Drop("perform_installation")>>

\* handle_key_event up to its first external operation: the new state, the
\* new cursor, and what is left of the handler.
GHandled(st, ls, rest) == [state |-> st, list_state |-> ls, todo |-> rest]

handle_key_event(code, c, st, ls, wraps) ==
    LET step == st.current_step
    IN  CASE step = "Welcome" ->
                IF code = "Enter"
                THEN GHandled([st EXCEPT !.active_field = "Username",
                                         !.current_step = "CreateUser"], ls, <<>>)
                ELSE GHandled(st, ls, <<>>)
          [] step = "CreateUser" ->
                GHandled(gaming_edit(st, code, c, "username", "Username",
                                     "password", "Password",
                                     [st EXCEPT !.active_field = "Country",
                                                !.current_step = "SelectLocale"]),
                         ls, <<>>)
          [] step = "SelectLocale" ->
                IF code = "Enter" /\ st.timezone # <<>> /\ st.active_field = "Timezone"
                   /\ ~(st.country # <<>> /\ st.active_field = "Country")
                THEN GHandled(st, ls, <<Cmd("lsblk"), Assign("active_field", "None"),
                                        Assign("current_step", "PartitionDisk")>>)
                ELSE GHandled(gaming_edit(st, code, c, "country", "Country",
                                          "timezone", "Timezone", st), ls, <<>>)
          [] step = "PartitionDisk" ->
                IF ~st.disk_selected
                THEN CASE code = "Up" ->
                            GHandled([st EXCEPT !.selected_disk = Max(@ - 1, 0)], ls, <<>>)
                       [] code = "Down" ->
                            IF st.selected_disk < len_minus_one(Len(st.disks), wraps)
                            THEN GHandled([st EXCEPT !.selected_disk = @ + 1], ls, <<>>)
                            ELSE GHandled(st, ls, <<>>)
                       [] code = "Enter" ->
                            IF st.disks # <<>>
                            THEN GHandled([st EXCEPT
                                     !.target_disk = first_word(st.disks[st.selected_disk + 1]),
                                     !.disk_selected = TRUE], ls, <<>>)
                            ELSE GHandled(st, ls, <<>>)
                       [] OTHER -> GHandled(st, ls, <<>>)
                ELSE CASE code = "Char" /\ c = "y" ->
                            GHandled([st EXCEPT !.auto_partition = TRUE], ls, <<>>)
                       [] code = "Char" /\ c = "n" ->
                            GHandled([st EXCEPT !.auto_partition = FALSE], ls, <<>>)
                       [] code = "Enter" ->
                            GHandled(st, ls, perform_partitioning(st)
                                             \o <<Assign("current_step", "SelectDesktop")>>)
                       [] OTHER -> GHandled(st, ls, <<>>)
          [] step = "SelectDesktop" ->
                CASE code = "Up" ->
                        GHandled(st, Some(IF ls = None THEN 0
                                          ELSE IF ls[1] > 0 THEN ls[1] - 1 ELSE 0), <<>>)
                  [] code = "Down" ->
                        GHandled(st, Some(IF ls = None THEN 2
                                          ELSE IF ls[1] < 2 THEN ls[1] + 1 ELSE 2), <<>>)
                  [] code = "Enter" ->
                        LET sel == IF ls = None THEN 0 ELSE ls[1]
                        IN  GHandled([st EXCEPT
                                        !.desktop_env = IF sel < Len(Desktops)
                                                        THEN <<Desktops[sel + 1]>>
                                                        ELSE <<"kde">>,
                                        !.current_step = "ConfigureNetwork"], ls, <<>>)
                  [] OTHER -> GHandled(st, ls, <<>>)
          [] step = "ConfigureNetwork" ->
                IF code = "Enter"
                THEN GHandled(st, ls, configure_network
                                      \o <<Assign("current_step", "InstallSystem"),
                                           Drop("handle_key_event")>>
                                      \o gaming_perform_installation(st))
                ELSE GHandled(st, ls, <<>>)
          [] step = "Done" ->
                IF code = "Enter" THEN GHandled(st, ls, <<Cmd("reboot")>>)
                ELSE GHandled(st, ls, <<>>)
          [] OTHER -> GHandled(st, ls, <<>>)


(***************************************************************************)
(* Gaming edition: the external operations.                                *)
(***************************************************************************)
\* the chroot_cmd closures: Command::new("chroot")...output()?; Ok(())
gaming_chroot_cmd(st, cmd) ==
    Status("chroot", <<st.mount_point, <<"sh">>, <<"-c">>, cmd>>)

parted(st, args) == Status("parted", <<<<"-s">>, st.target_disk>> \o args)
\* part that names a partition of the first disk listed
part_first_disk(st, n) == first_word(st.disks[1]) \o <<n>>

\* format!("{}<n>", state.target_disk)
part(st, n) == st.target_disk \o <<n>>

\* the arguments perform_installation gives grub-install on UEFI
UefiGrubArgs == "--target=x86_64-efi --efi-directory=/boot --bootloader-id=GRUB"

\* efi_opt without the test of is_uefi
efi_opt_always(st) == UefiGrubArgs

\* efi_opt of perform_installation
efi_opt(st) == IF st.is_uefi THEN UefiGrubArgs ELSE ""

\* the operation an instruction Cmd(n) issues, built from the state it runs in
gaming_op(ins, st) ==
    LET n == ins.n
        mp == st.mount_point
        bind(dir) == Status("mount", <<<<"--bind">>, <<dir>>, mp \o <<dir>>>>)
        umount(dir) == Status("umount", <<mp \o <<dir>>>>)
        chroot(cmd) == gaming_chroot_cmd(st, cmd)
    IN  CASE n = "lsblk" -> Status("lsblk", <<<<"-d">>, <<"-o">>, <<"NAME,SIZE">>, <<"-n">>>>)
          \* perform_partitioning
          [] n = "parted mklabel gpt" -> parted(st, <<<<"mklabel">>, <<"gpt">>>>)
          [] n = "parted mkpart ESP" ->
                parted(st, <<<<"mkpart">>, <<"ESP">>, <<"fat32">>, <<"1MiB">>, <<"513MiB">>>>)
          [] n = "parted set esp" -> parted(st, <<<<"set">>, <<"1">>, <<"esp">>, <<"on">>>>)
          [] n = "parted mkpart root" ->
                parted(st, <<<<"mkpart">>, <<"root">>, <<"ext4">>, <<"513MiB">>, <<"100%">>>>)
          [] n = "mkfs.fat" -> Status("mkfs.fat", <<<<"-F32">>, part(st, "1")>>)
          [] n = "mkfs.ext4 2" -> Status("mkfs.ext4", <<part(st, "2")>>)
          [] n = "create_dir_all boot" -> Fs("create_dir_all", <<mp \o <<"/boot">>>>)
          [] n = "mount 2" -> Status("mount", <<part(st, "2"), mp>>)
          [] n = "mount 1 boot" -> Status("mount", <<part(st, "1"), mp \o <<"/boot">>>>)
          [] n = "parted mklabel msdos" -> parted(st, <<<<"mklabel">>, <<"msdos">>>>)
          [] n = "parted mkpart primary" ->
                parted(st, <<<<"mkpart">>, <<"primary">>, <<"ext4">>, <<"1MiB">>, <<"100%">>>>)
          [] n = "parted set boot" -> parted(st, <<<<"set">>, <<"1">>, <<"boot">>, <<"on">>>>)
          [] n = "mkfs.ext4 1" -> Status("mkfs.ext4", <<part(st, "1")>>)
          [] n = "mount 1" -> Status("mount", <<part(st, "1"), mp>>)
          \* configure_network, is_connected
          [] n = "dhclient" -> Status("dhclient", <<>>)
          [] n \in {"ping 1", "ping 2"} -> Status("ping", <<<<"-c1">>, <<"8.8.8.8">>>>)
          [] n = "nmtui" -> Status("nmtui", <<>>)
          \* perform_installation
          [] n = "rsync" -> Status("rsync", <<<<"-aAXv">>, <<"--exclude=...">>, <<"/">>, mp>>)
          [] n = "bind /dev" -> bind("/dev")
          [] n = "bind /proc" -> bind("/proc")
          [] n = "bind /sys" -> bind("/sys")
          [] n = "bind /run" -> bind("/run")
          [] n = "useradd" ->
                chroot(<<"useradd -m ">> \o st.username \o <<" && echo '">> \o st.username
                       \o <<":">> \o st.password \o <<"' | chpasswd">>)
          [] n = "timezone" ->
                chroot(<<"echo '">> \o st.timezone
                       \o <<"' > /etc/timezone && ln -sf /usr/share/zoneinfo/">>
                       \o st.timezone \o <<" /etc/localtime">>)
          [] n = "apt plasma" -> chroot(<<"apt install -y plasma-desktop">>)
          [] n = "apt gnome" -> chroot(<<"apt install -y gdm3 gnome-desktop">>)
          [] n = "git clone hydra" -> chroot(<<"git clone hydra-look-and-feel.git">>)
          [] n = "cp hydra" -> chroot(<<"cp -r /tmp/hydra-look-and-feel/files/* /">>)
          [] n = "HackerOS-Steam create" -> chroot(<<"HackerOS-Steam create">>)
          [] n = "git clone gamescope" -> chroot(<<"git clone gamescope-session-steam.git">>)
          [] n = "hl run" -> chroot(<<"hl run /tmp/gamescope-session-steam/unpack.hacker">>)
          [] n = "cp icons" -> chroot(<<"cp -r /usr/share/HackerOS/Archived/icons/ /usr/share/">>)
          [] n = "rm icons" -> chroot(<<"rm -rf /usr/share/HackerOS/Archived/icons/">>)
          \* detect_and_install_gpu
          [] n = "lspci" -> Status("lspci", <<>>)
          [] n = "apt nvidia" -> chroot(<<"apt install -y nvidia-driver ...">>)
          [] n = "apt amd" -> chroot(<<"apt install -y firmware-amd-graphics">>)
          [] n = "apt intel" -> chroot(<<"apt install -y intel-gpu-tools">>)
          \* install_kernel
          [] n = "read kernel.hacker" ->
                Fs("read_to_string", <<mp \o <<"/usr/share/HackerOS/Archived/kernel.hacker">>>>)
          [] n = "install-liquorix" ->
                chroot(<<"curl -s 'https://liquorix.net/install-liquorix.sh' | bash">>)
          [] n = "apt remove generic" -> chroot(<<"apt remove -y linux-image-*generic">>)
          [] n = "update-grub" -> chroot(<<"update-grub">>)
          [] n = "wget xanmod-cpu" ->
                Status("wget", <<<<"-O">>, mp \o <<"/tmp/xanmod-cpu.hacker">>,
                                 <<"xanmod-cpu.hacker?raw=true">>>>)
          [] n = "read xanmod-cpu" ->
                Fs("read_to_string", <<mp \o <<"/tmp/xanmod-cpu.hacker">>>>)
          [] n = "xanmod key" -> chroot(<<"wget -qO - https://dl.xanmod.org/archive.key | gpg">>)
          [] n = "xanmod list" -> chroot(<<"echo 'deb ... xanmod' | tee xanmod-release.list">>)
          [] n = "apt update" -> chroot(<<"apt update">>)
          [] n = "apt install xanmod" ->
                chroot(<<"apt install -y linux-xanmod-lts-">> \o ins.v)
          \* the bootloader and the cleanup
          [] n = "grub-install" ->
                chroot(<<"grub-install ", efi_opt(st), " ">> \o st.target_disk)
          [] n = "grub-mkconfig" -> chroot(<<"grub-mkconfig -o /boot/grub/grub.cfg">>)
          [] n = "umount /run" -> umount("/run")
          [] n = "umount /sys" -> umount("/sys")
          [] n = "umount /proc" -> umount("/proc")
          [] n = "umount /dev" -> umount("/dev")
          [] n = "umount -R" -> Status("umount", <<<<"-R">>, mp>>)
          [] n = "reboot" -> Status("reboot", <<>>)

\* The texts the environment can return.  A line of lsblk's output is its
\* whitespace-separated words; the other texts are the set of the words in them.
LsblkOutputs == { <<>>,
                  << <<"sda", "10G">> >>,
                  << <<"sda", "10G">>, <<"sdb", "20G">> >>,
                  << <<"loop0">> >> }
LspciOutputs == {{}, {"NVIDIA"}, {"AMD"}, {"Intel"}, {"NVIDIA", "AMD"}, {"AMD", "Intel"},
                 {"nvidia"}}
\* the lines of kernel.hacker, each a sequence of tokens, " " a blank
KernelFiles == {{}, {<<"[liquorix]">>}, {<<" ", "[xanmod]", " ">>},
                {<<"[liquorix]">>, <<"[xanmod]">>}, {<<"[xanmod]", " ", "lts">>}}
CpuFiles == {{}, {"x86-64-v3"}, {"x86-64-v2"}, {"x86-64"}, {"x86-64-v2", "x86-64-v3"}}

\* str::contains that takes "nvidia" for "NVIDIA"
contains_any_case(text, pat) ==
    \E w \in text : \/ w = pat
                    \/ pat = "NVIDIA" /\ w = "nvidia"
                    \/ pat = "x86-64" /\ w \in {"x86-64-v2", "x86-64-v3"}

\* str::contains: pat occurs in one of the words of text
contains(text, pat) ==
    \E w \in text : w = pat \/ (pat = "x86-64" /\ w \in {"x86-64-v2", "x86-64-v3"})

\* what an operation can return: its outcome and, where the code reads it and
\* the operation did run, the text it returned
Outputs(n) ==
    CASE n = "lsblk" -> LsblkOutputs
      [] n = "lspci" -> LspciOutputs
      [] n = "read kernel.hacker" -> KernelFiles
      [] n = "read xanmod-cpu" -> CpuFiles
      [] OTHER -> {}
Results(n, op) ==
    { [outcome |-> "error", out |-> None] }
    \cup (IF Outputs(n) = {}
          THEN { [outcome |-> o, out |-> None] : o \in Outcomes(op) \ {"error"} }
          ELSE { [outcome |-> o, out |-> Some(x)] :
                    o \in Outcomes(op) \ {"error"}, x \in Outputs(n) })

\* the operations that only ask the environment a question: their outcome is
\* an answer, not a failure of the installation
Probes == {"lsblk", "ping 1", "ping 2"}

\* fetch_disks after lsblk returned `lines`
fetch_disks(st, lines) ==
    LET disks == [k \in 1..Len(lines) |-> disk_entry(lines[k])]
    IN  [st EXCEPT !.disks = disks,
                   !.target_disk = IF disks # <<>> THEN first_word(disks[1]) ELSE @]

\* detect_and_install_gpu after lspci returned `text`: the state and the
\* instructions that follow
detect_and_install_gpu(st, text) ==
    LET found(tag, marker, cmd) ==
            [state |-> [st EXCEPT !.gpu_type = <<tag>>, !.progress = Append(@, marker)],
             todo |-> <<Cmd(cmd)>>]
    IN  IF contains(text, "NVIDIA") THEN found("nvidia", "Detected NVIDIA GPU.", "apt nvidia")
        ELSE IF contains(text, "AMD") THEN found("amd", "Detected AMD GPU.", "apt amd")
        ELSE IF contains(text, "Intel") THEN found("intel", "Detected Intel GPU.", "apt intel")
        ELSE [state |-> st, todo |-> <<>>]

\* str::trim: the line without its leading and trailing blanks
RECURSIVE trim(_)
trim(l) ==
    IF l = <<>> THEN l
    ELSE IF Head(l) = " " THEN trim(Tail(l))
    ELSE IF l[Len(l)] = " " THEN trim(SubSeq(l, 1, Len(l) - 1))
    ELSE l

\* install_kernel with the test of [xanmod] first
install_kernel_xanmod_first(st, content) ==
    LET lines == {trim(l) : l \in content}
    IN  IF <<"[xanmod]">> \in lines
        THEN [state |-> [st EXCEPT !.kernel_type = <<"xanmod">>],
              todo |-> <<Cmd("wget xanmod-cpu"), Cmd("read xanmod-cpu")>>]
        ELSE IF <<"[liquorix]">> \in lines
        THEN [state |-> [st EXCEPT !.kernel_type = <<"liquorix">>],
              todo |-> <<Cmd("install-liquorix"), Cmd("apt remove generic"),
                         Cmd("update-grub")>>]
        ELSE [state |-> st, todo |-> <<>>]

\* install_kernel after kernel.hacker was read: content is the set of its lines
install_kernel(st, content) ==
    LET lines == {trim(l) : l \in content}
    IN  IF <<"[liquorix]">> \in lines
        THEN [state |-> [st EXCEPT !.kernel_type = <<"liquorix">>],
              todo |-> <<Cmd("install-liquorix"), Cmd("apt remove generic"),
                         Cmd("update-grub")>>]
        ELSE IF <<"[xanmod]">> \in lines
        THEN [state |-> [st EXCEPT !.kernel_type = <<"xanmod">>],
              todo |-> <<Cmd("wget xanmod-cpu"), Cmd("read xanmod-cpu")>>]
        ELSE [state |-> st, todo |-> <<>>]

\* xanmod_variant with the test of x86-64-v2 first
xanmod_variant_v2_first(cpu_content) ==
    IF contains(cpu_content, "x86-64-v2") THEN "x64v2"
    ELSE IF contains(cpu_content, "x86-64-v3") THEN "x64v3"
    ELSE IF contains(cpu_content, "x86-64") THEN "x64v1"
    ELSE "x64v3"

\* the variant install_kernel picks from the text of xanmod-cpu.hacker
xanmod_variant(cpu_content) ==
    IF contains(cpu_content, "x86-64-v3") THEN "x64v3"
    ELSE IF contains(cpu_content, "x86-64-v2") THEN "x64v2"
    ELSE IF contains(cpu_content, "x86-64") THEN "x64v1"
    ELSE "x64v3"

install_xanmod(cpu_content) ==
    <<Cmd("xanmod key"), Cmd("xanmod list"), Cmd("apt update"),
      [i |-> "cmd", n |-> "apt install xanmod", v |-> <<xanmod_variant(cpu_content)>>],
      Cmd("apt remove generic"), Cmd("update-grub")>>


(***************************************************************************)
(* Gaming edition: run_app.                                                *)
(***************************************************************************)
GamingChars == {"a", "y", "n"}

InitGaming ==
    /\ variant = "gaming"
    /\ firmware \in {"UEFI", "BIOS"}
    /\ overflow_checks \in BOOLEAN
    /\ state = GamingDefault(firmware)
    /\ list_state = None
    /\ input_buffer = <<>>
    /\ active_input = FALSE
    /\ pc = "loop"
    /\ ip = 0
    /\ ops = <<>>
    /\ failed = FALSE
    /\ run_failed = FALSE
    /\ moves = 0
    /\ todo = <<>>
    /\ guards = <<>>

\* the values of current_step while perform_installation runs
PipelineSteps == {"InstallSystem", "DetectGPU", "InstallKernel", "Finalize"}

\* AfterHandler without run_app's test of Done
AfterHandler_no_exit(st, rest) ==
    IF rest # <<>> THEN "handler" ELSE "loop"

\* where run_app is once what is left of handle_key_event is `rest`:
\* still in the handler, or back in the loop, which returns at Done
AfterHandler(st, rest) ==
    IF rest # <<>> THEN "handler"
    ELSE IF st.current_step = "Done" THEN "exited"
    ELSE "loop"

\* The handler goes on from state st holding the guards g with `rest` left:
\* the instructions on the mutex at the head of rest are run, and the
\* handler's return drops the guard it still holds.
Resume(st, g, rest) ==
    LET s == settle(g, rest)
    IN  /\ todo' = s.todo
        /\ guards' = IF s.todo = <<>> THEN <<>> ELSE s.guards
        /\ IF s.stuck
           THEN pc' \in {"deadlocked", "panicked"}
           ELSE pc' = AfterHandler(st, s.todo)

\* disks.len() - 1 panics in a build with overflow checks
DownPanics(code, st) ==
    /\ code = "Down"
    /\ st.current_step = "PartitionDisk"
    /\ ~st.disk_selected
    /\ Len(st.disks) = 0
    /\ overflow_checks

\* One iteration of run_app's loop up to the handler's first external
\* operation: draw, read one key press, handle it.
GamingEvent(code, c) ==
    /\ variant = "gaming"
    /\ pc = "loop"
    /\ LET ls == ui(state, list_state)
           h == handle_key_event(code, c, state, ls, ~overflow_checks)
       IN  IF guards # <<>>
           THEN \* the lock() of the draw does not return
                /\ pc' \in {"deadlocked", "panicked"}
                /\ guards' = Append(guards, "run_app")
                /\ UNCHANGED <<state, list_state, todo>>
           ELSE IF DownPanics(code, state)
           THEN /\ pc' = "panicked"
                /\ list_state' = ls
                /\ UNCHANGED <<state, todo, guards>>
           ELSE /\ state' = h.state
                /\ list_state' = h.list_state
                /\ Resume(h.state, <<"handle_key_event">>, h.todo)
    /\ UNCHANGED <<variant, firmware, overflow_checks, input_buffer, active_input,
                   ip, ops, failed, run_failed>>

\* the text field a typed character or a Backspace edits, if any
EditedField(st) ==
    CASE st.current_step = "CreateUser" /\ st.active_field = "Username" -> Some("username")
      [] st.current_step = "CreateUser" /\ st.active_field = "Password" -> Some("password")
      [] st.current_step = "SelectLocale" /\ st.active_field = "Country" -> Some("country")
      [] st.current_step = "SelectLocale" /\ st.active_field = "Timezone" -> Some("timezone")
      [] OTHER -> None

GKeyEnter == GamingEvent("Enter", "") /\ UNCHANGED moves
GKeyUp == GamingEvent("Up", "") /\ UNCHANGED moves
GKeyDown ==
    /\ variant = "gaming"
    /\ IF state.current_step = "PartitionDisk" /\ ~state.disk_selected
       THEN IF state.selected_disk = 0
            THEN moves < MaxMoves /\ moves' = moves + 1
            ELSE state.selected_disk < MaxCursor /\ moves' = moves
       ELSE moves' = moves
    /\ GamingEvent("Down", "")
GKeyChar ==
    \E c \in GamingChars :
        /\ variant = "gaming"
        /\ LET f == EditedField(state)
           IN  f # None => Append(state[f[1]], c) \in Texts
        /\ IF state.current_step = "PartitionDisk" /\ state.disk_selected
              /\ c = "n" /\ state.auto_partition
           THEN moves < MaxMoves /\ moves' = moves + 1
           ELSE moves' = moves
        /\ GamingEvent("Char", c)
GKeyBackspace ==
    /\ variant = "gaming"
    /\ LET f == EditedField(state)
       IN  IF f # None /\ state[f[1]] \in {DefaultCountry, DefaultTimezone}
           THEN moves < MaxMoves /\ moves' = moves + 1
           ELSE moves' = moves
    /\ GamingEvent("Backspace", "")
GOtherKey == GamingEvent("Other", "") /\ UNCHANGED moves

\* The next instruction of the handler being run, with what the environment
\* returns when it is an external operation.
GamingStep ==
    /\ variant = "gaming"
    /\ pc = "handler"
    /\ LET ins == Head(todo)
           rest == Tail(todo)
       IN  IF ins.i = "progress"
           THEN /\ state' = [state EXCEPT !.progress = Append(@, ins.n)]
                /\ Resume(state', guards, rest)
                /\ UNCHANGED <<ops, failed, run_failed>>
           ELSE IF ins.i = "assign"
           THEN /\ state' = [state EXCEPT ![ins.n] = ins.v[1]]
                /\ Resume(state', guards, rest)
                /\ UNCHANGED <<ops, failed, run_failed>>
           ELSE LET n == ins.n
                    op == gaming_op(ins, state)
                IN  \E r \in Results(n, op) :
                      LET out == r.out
                          ok == r.outcome = "ok"
                          \* the state and what is left to do when the
                          \* operation returned without an Err
                          cont ==
                            CASE n = "lsblk" ->
                                    [state |-> fetch_disks(state, out[1]), todo |-> rest]
                              [] n = "ping 1" ->
                                    [state |-> state,
                                     todo |-> IF ok THEN rest ELSE <<Cmd("nmtui")>> \o rest]
                              [] n = "ping 2" ->
                                    [state |-> [state EXCEPT !.network_configured = ok],
                                     todo |-> rest]
                              [] n = "lspci" ->
                                    LET d == detect_and_install_gpu(state, out[1])
                                    IN  [state |-> d.state, todo |-> d.todo \o rest]
                              [] n = "read kernel.hacker" ->
                                    LET k == install_kernel(state, out[1])
                                    IN  [state |-> k.state, todo |-> k.todo \o rest]
                              [] n = "read xanmod-cpu" ->
                                    [state |-> state, todo |-> install_xanmod(out[1]) \o rest]
                              [] OTHER -> [state |-> state, todo |-> rest]
                          \* .unwrap() of lsblk's result, parts[1] of a line
                          panics ==
                            /\ n = "lsblk"
                            /\ \/ r.outcome = "error"
                               \/ \E k \in 1..Len(out[1]) : Len(out[1][k]) < 2
                          \* is_connected maps a failure to false; `?` returns the others
                          err == r.outcome = "error" /\ n \notin Probes
                      IN  /\ ops' = Append(ops, [op EXCEPT !.out = out])
                          /\ failed' = (failed \/ (~ok /\ n \notin Probes))
                          /\ run_failed' = (\/ run_failed
                                             \/ (~ok /\ state.current_step \in PipelineSteps))
                          /\ IF panics
                             THEN /\ pc' = "panicked"
                                  /\ guards' = <<>>
                                  /\ UNCHANGED <<state, todo>>
                             ELSE IF err
                             THEN \* the `?` returns drop the guards
                                  /\ pc' = "error"
                                  /\ guards' = <<>>
                                  /\ UNCHANGED <<state, todo>>
                             ELSE /\ state' = cont.state
                                  /\ Resume(cont.state, guards, cont.todo)
    /\ UNCHANGED <<variant, firmware, overflow_checks, list_state, input_buffer,
                   active_input, ip, moves>>

NextGaming ==
    \/ GKeyEnter
    \/ GKeyUp
    \/ GKeyDown
    \/ GKeyChar
    \/ GKeyBackspace
    \/ GOtherKey
    \/ GamingStep

SpecGaming == InitGaming /\ [][NextGaming]_vars

(***************************************************************************)
(* Both binaries.                                                          *)
(***************************************************************************)
Init == InitMain \/ InitGaming
Next == NextMain \/ NextGaming
Spec == Init /\ [][Next]_vars


(***************************************************************************)
(* Properties.                                                             *)
(***************************************************************************)
Issued(P(_)) == \E i \in 1..Len(ops) : P(ops[i])
HasArg(op, word) == \E j \in 1..Len(op.args) : op.args[j] = <<word>>
InText(text, tok) == \E j \in 1..Len(text) : text[j] = tok
\* the shell command of a chroot operation, <<>> for any other operation
ShellCmd(op) == IF op.prog = "chroot" /\ Len(op.args) = 4 THEN op.args[4] ELSE <<>>

\* C1: in both variants, once an operation of the installation pipeline has
\* returned a failing outcome (it could not be started, or it exited with a
\* non-zero status), no further operation of that run is issued.
C1_AbortOnFirstFailure == [][failed => Len(ops') <= Len(ops)]_vars

\* C2: in the main installer, after perform_installation has returned an
\* error (error_message is set), no event makes perform_installation run again.
C2_PipelineRunsOnce ==
    [][(variant = "main" /\ state.error_message # None /\ pc # "install")
       => pc' # "install"]_vars

\* C3: in the main installer no operation is issued while current_step < 13,
\* and current_step becomes 13 only through an Enter handled at step 12.
C3_WizardIssuesNoOperation ==
    [][variant = "main" =>
        /\ state.current_step < 13 => ops = <<>>
        /\ state'.current_step < 13 => ops' = <<>>
        /\ (state.current_step < 13 /\ state'.current_step >= 13)
             => (state.current_step = 12 /\ state'.current_step = 13 /\ KeyEnter)]_vars

\* the Enter at the summary step has handed off and the pipeline has issued
\* its first operations
C3_Witness ==
    /\ variant = "main"
    /\ state.current_step = 13
    /\ pc = "install"
    /\ Len(ops) >= 2

\* C4: in the gaming edition no operation is issued before the Enter on the
\* last wizard step, ConfigureNetwork.
WizardSteps == {"Welcome", "CreateUser", "SelectLocale", "PartitionDisk", "SelectDesktop"}
C4_GamingWizardIssuesNoOperation ==
    (/\ variant = "gaming"
     /\ \/ state.current_step \in WizardSteps
        \/ state.current_step = "ConfigureNetwork" /\ pc = "loop")
    => ops = <<>>

\* C5: in the gaming edition the argument list of every issued command is the
\* one the run would have issued with any other password.
OtherPassword == <<"b">>
C5_PasswordNotInArguments ==
    variant = "gaming" =>
        LET prog == gaming_perform_installation(state)
            other == [state EXCEPT !.password = OtherPassword]
        IN  \A i \in 1..Len(ops) : \A k \in 1..Len(prog) :
                (/\ prog[k].i = "cmd"
                 /\ ops[i].prog = gaming_op(prog[k], state).prog
                 /\ ops[i].args = gaming_op(prog[k], state).args)
                => ops[i].args = gaming_op(prog[k], other).args

\* C6: in the gaming edition with automatic partitioning, a UEFI run issues
\* the creation of the EFI partition, its FAT32 format and grub-install with
\* the UEFI arguments; a BIOS run issues none of the three and sets the boot
\* flag on the single partition.
IsEspCreate(op) == op.prog = "parted" /\ HasArg(op, "mkpart") /\ HasArg(op, "ESP")
IsFat32Format(op) == op.prog = "mkfs.fat" /\ HasArg(op, "-F32")
IsGrubInstall(op) == ShellCmd(op) # <<>> /\ ShellCmd(op)[1] = "grub-install "
HasUefiArgs(op) == IsGrubInstall(op) /\ InText(ShellCmd(op), UefiGrubArgs)
IsBootFlag(op) == op.prog = "parted" /\ HasArg(op, "set") /\ HasArg(op, "boot")
C6_FirmwareDecidesLayout ==
    (variant = "gaming" /\ state.auto_partition) =>
        /\ firmware = "BIOS" =>
              ~Issued(IsEspCreate) /\ ~Issued(IsFat32Format) /\ ~Issued(HasUefiArgs)
        /\ state.current_step = "Done" =>
              /\ Issued(IsGrubInstall)
              /\ IF firmware = "UEFI"
                 THEN Issued(IsEspCreate) /\ Issued(IsFat32Format) /\ Issued(HasUefiArgs)
                 ELSE Issued(IsBootFlag)

\* a UEFI run with automatic partitioning has reached Done
C6_Witness ==
    /\ variant = "gaming"
    /\ firmware = "UEFI"
    /\ state.auto_partition
    /\ state.current_step = "Done"
    /\ pc = "exited"
    /\ Issued(HasUefiArgs)

\* C7: in the main installer with automatic partitioning, a BIOS run issues
\* none of: the FAT32 format of the EFI partition, its mount, grub-install
\* with the UEFI arguments.
IsMainEfiOp(op) ==
    \/ op.prog = "mkfs.fat"
    \/ op.prog = "mount" /\ HasArg(op, "/mnt/boot/efi")
    \/ /\ ShellCmd(op) # <<>>
       /\ ShellCmd(op)[1] =
            "grub-install --target=x86_64-efi --efi-directory=/boot/efi --bootloader-id=HackerOS "
C7_MainEfiOnlyOnUefi ==
    (variant = "main" /\ firmware = "BIOS" /\ ~state.manual_partition)
    => ~Issued(IsMainEfiOp)

\* C8: in the main installer the cursor of a list step stays within
\* [0, itemCount - 1].
C8_CursorInRange ==
    (variant = "main" /\ ItemCount(state) > 0 /\ list_state # None)
    => list_state[1] <= ItemCount(state) - 1

\* C9: in the gaming edition selected_disk stays within [0, disks.len() - 1],
\* at 0 when no disk was detected, and the computation of the bound does not
\* overflow.
C9_SelectedDiskInRange ==
    variant = "gaming" =>
        /\ state.selected_disk <= Max(Len(state.disks) - 1, 0)
        /\ ~(pc = "panicked" /\ state.current_step = "PartitionDisk")

\* C10: in the gaming edition's desktop step, Enter commits the item at the
\* position Up and Down left the cursor at (the cursor enters the step at 0
\* when the first disk was chosen) and advances to ConfigureNetwork.
C10_EnterCommitsCursor ==
    [][(/\ variant = "gaming"
        /\ state.current_step = "SelectDesktop"
        /\ pc = "loop"
        /\ state.selected_disk = 0
        /\ list_state # None
        /\ list_state[1] < Len(Desktops)
        /\ GKeyEnter)
       => (/\ state'.desktop_env = <<Desktops[list_state[1] + 1]>>
           /\ state'.current_step = "ConfigureNetwork")]_vars

\* C11: in the main installer, once the Atomic edition is confirmed the
\* filesystem is Btrfs and the wizard never waits for an event at the
\* filesystem step (current_step = 6).
C11_AtomicSkipsFilesystemStep ==
    (variant = "main" /\ state.edition = Some("Atomic")) =>
        /\ state.filesystem = Some("Btrfs")
        /\ ~(state.current_step = 6 /\ pc = "loop")

\* what an Enter read in the current state of the main installer's loop makes
\* of (state, list_state, active_input, input_buffer)
AfterEnter ==
    MainKey("Enter", "", state, draw_ui(state, list_state), active_input, input_buffer)

\* C12: in the main installer, an Enter on the hostname step while the field
\* is edited and the input buffer is empty leaves the hostname "hackeros" and
\* advances from step 9 to step 10.
C12_EmptyHostnameFallsBack ==
    (/\ variant = "main"
     /\ pc = "loop"
     /\ state.current_step = 9
     /\ active_input
     /\ input_buffer = <<>>)
    => (/\ AfterEnter.state.hostname = <<"hackeros">>
        /\ AfterEnter.state.current_step = 10)

\* what an Enter read in the current state of the gaming edition's loop makes
\* of the state and the cursor, and what it leaves to do
GAfterEnter == handle_key_event("Enter", "", state, ui(state, list_state), ~overflow_checks)

AfterEsc ==
    MainKey("Esc", "", state, draw_ui(state, list_state), active_input, input_buffer)

\* C14: in the main installer, Esc while a text step is edited empties the
\* input buffer and changes neither current_step nor any committed answer.
TextSteps == {1, 2, 3, 8, 9}
StepIndex(step) == CHOOSE i \in 1..Len(GamingSteps) : GamingSteps[i] = step
ValidConfirm ==
    IF state.current_step \in TextSteps THEN ~(active_input /\ input_buffer = <<>>)
    ELSE IF ItemCount(state) > 0
    THEN draw_ui(state, list_state)[1] < ItemCount(state)
    ELSE TRUE
C16_OneConfirmPerStep ==
    (/\ variant = "main"
     /\ pc = "loop"
     /\ state.current_step <= 11
     /\ ValidConfirm)
    => AfterEnter.state.current_step = state.current_step + 1


\* the vendor the text of lspci names: NVIDIA before AMD before Intel, as written
ExpectedVendor(text) ==
    IF "NVIDIA" \in text THEN "nvidia"
    ELSE IF "AMD" \in text THEN "amd"
    ELSE IF "Intel" \in text THEN "intel"
    ELSE "none"
Vendors == {"nvidia", "amd", "intel"}
DriverCmd(v) ==
    CASE v = "nvidia" -> <<"apt install -y nvidia-driver ...">>
      [] v = "amd" -> <<"apt install -y firmware-amd-graphics">>
      [] v = "intel" -> <<"apt install -y intel-gpu-tools">>
DriverOps(v) == {j \in 1..Len(ops) : ShellCmd(ops[j]) = DriverCmd(v)}
AfterGpuPhase == state.current_step \in {"InstallKernel", "Finalize", "Done"}

ExpectedVariant(text) ==
    IF "x86-64-v3" \in text THEN "x64v3"
    ELSE IF "x86-64-v2" \in text THEN "x64v2"
    ELSE IF "x86-64" \in text THEN "x64v1"
    ELSE "x64v3"
IsCpuRead(op) ==
    /\ op.prog = "read_to_string"
    /\ op.args = <<state.mount_point \o <<"/tmp/xanmod-cpu.hacker">>>>
    /\ Len(op.out) = 1
XanmodInstalls ==
    {j \in 1..Len(ops) : /\ Len(ShellCmd(ops[j])) = 2
                         /\ ShellCmd(ops[j])[1] = "apt install -y linux-xanmod-lts-"}

IsKernelRead(op) ==
    /\ op.prog = "read_to_string"
    /\ op.args = <<state.mount_point \o <<"/usr/share/HackerOS/Archived/kernel.hacker">>>>

\* C19: in the gaming edition, when the read of kernel.hacker is the last
\* operation issued and it returned no text (the file is absent), the
\* pipeline has not been abandoned: it goes on to the bootloader phase with
\* the default kernel.
C19_KernelFileOptional ==
    (variant = "gaming" /\ ops # <<>> /\ IsKernelRead(ops[Len(ops)]) /\ ops[Len(ops)].out = None)
    => (pc = "handler" /\ state.kernel_type = <<>>)

\* C20: in the gaming edition, when "Auto partitioning done." is the last
\* marker of progress, every partitioning operation issued so far (the only
\* operations issued by then, the listing of disks apart) has succeeded.
C20_MarkerOnlyAfterSuccess ==
    (/\ variant = "gaming"
     /\ state.progress # <<>>
     /\ state.progress[Len(state.progress)] = "Auto partitioning done.")
    => ~failed

\* the operations of the run that bind a virtual filesystem, mount a
\* partition, and unmount one directory
IsBind(op) == op.prog = "mount" /\ Len(op.args) = 3 /\ op.args[1] = <<"--bind">>
IsPartMount(op) == op.prog = "mount" /\ Len(op.args) = 2
IsUmount(op) == op.prog = "umount"
Binds == {i \in 1..Len(ops) : IsBind(ops[i])}
PartMountTargets == {ops[i].args[2] : i \in {k \in 1..Len(ops) : IsPartMount(ops[k])}}
\* an unmount of a partition: of the whole tree (-R) or of a directory a
\* partition was mounted on
PartUmounts ==
    {j \in 1..Len(ops) : /\ IsUmount(ops[j])
                         /\ \/ ops[j].args[1] = <<"-R">>
                            \/ ops[j].args[1] \in PartMountTargets}
VirtUmounts == {j \in 1..Len(ops) : IsUmount(ops[j])} \ PartUmounts

\* C21: in both variants, every unmount of a directory that is not a
\* partition's is the unmount of a directory bound earlier in the run, two
\* such unmounts come in the reverse order of their binds, and every unmount
\* of a partition comes after all of them.
C21_CleanupReversesBinds ==
    /\ \A j \in VirtUmounts : \E i \in Binds : i < j /\ ops[i].args[3] = ops[j].args[1]
    /\ \A j1, j2 \in VirtUmounts : \A i1, i2 \in Binds :
          (/\ j1 < j2
           /\ ops[i1].args[3] = ops[j1].args[1]
           /\ ops[i2].args[3] = ops[j2].args[1]) => i2 < i1
    /\ \A j \in VirtUmounts : \A k \in PartUmounts : j < k

\* The phase an operation belongs to, told from the operation alone:
\*   1 partition, 2 format, 3 mount, 4 base system, 5 bind mounts,
\*   6 in-target configuration, 7 desktop / edition, 8 GPU drivers,
\*   9 kernel selection, 10 bootloader, 11 cleanup,
\*   0 for what belongs to no phase (preparing apt on the host, probing the
\*   disks and the network, removing the installer, rebooting).
ConfigCmds == {"apt update -y",
               "apt install -y linux-image-amd64 grub-efi-amd64 sudo locales tzdata",
               "echo '", "locale-gen", "ln -sf /usr/share/zoneinfo/", "hwclock --systohc",
               "passwd root", "useradd -m -G sudo,wheel,audio,video -s /bin/bash ",
               "useradd -m "}
DesktopCmds == {"apt install -y task-kde-desktop sddm", "apt install -y task-gnome-desktop gdm3",
                "apt install -y task-xfce-desktop lightdm", "apt install -y sddm wayland",
                "apt install -y nmap wireshark metasploit-framework burpsuite",
                "apt install -y wayfire sddm", "hammer setup",
                "apt install -y plasma-desktop", "apt install -y gdm3 gnome-desktop",
                "git clone hydra-look-and-feel.git", "cp -r /tmp/hydra-look-and-feel/files/* /",
                "HackerOS-Steam create", "git clone gamescope-session-steam.git",
                "hl run /tmp/gamescope-session-steam/unpack.hacker",
                "cp -r /usr/share/HackerOS/Archived/icons/ /usr/share/",
                "rm -rf /usr/share/HackerOS/Archived/icons/"}
GpuCmds == {"apt install -y nvidia-driver ...", "apt install -y firmware-amd-graphics",
            "apt install -y intel-gpu-tools"}
KernelCmds == {"curl -s 'https://liquorix.net/install-liquorix.sh' | bash",
               "apt remove -y linux-image-*generic",
               "wget -qO - https://dl.xanmod.org/archive.key | gpg",
               "echo 'deb ... xanmod' | tee xanmod-release.list", "apt update",
               "apt install -y linux-xanmod-lts-"}
BootCmds == {"grub-install --target=x86_64-efi --efi-directory=/boot/efi --bootloader-id=HackerOS ",
             "grub-install ", "grub-mkconfig -o /boot/grub/grub.cfg"}
ChrootPhase(op) ==
    IF Len(op.args) = 3 THEN 6                      \* chroot /mnt passwd <user>
    ELSE IF op.args[2] = <<"chmod">> THEN 7         \* chroot /mnt chmod +x <asset>
    ELSE LET w == op.args[4][1]
         IN  CASE w \in ConfigCmds -> 6
               [] w \in DesktopCmds -> 7
               [] w \in GpuCmds -> 8
               [] w \in KernelCmds -> 9
               [] w \in BootCmds -> 10
               \* install_kernel of the gaming edition refreshes grub's
               \* configuration; in the main installer it ends the bootloader phase
               [] w = "update-grub" -> IF variant = "gaming" THEN 9 ELSE 10
               [] OTHER -> 0
Phase(op) ==
    CASE op.prog \in {"sfdisk", "cfdisk", "parted"} -> 1
      [] op.prog \in {"mkfs.fat", "mkfs.ext4", "sh"} -> 2
      [] IsPartMount(op) -> 3
      [] op.prog \in {"debootstrap", "rsync"} -> 4
      [] IsBind(op) -> 5
      [] op.prog = "chroot" -> ChrootPhase(op)
      [] op.prog \in {"download_file", "copy_dir", "clone"} -> 7
      [] op.prog = "write" /\ op.args[1] \in {<<"/mnt/etc/hostname">>, <<"/mnt/etc/hosts">>} -> 6
      [] op.prog = "lspci" -> 8
      [] op.prog \in {"read_to_string", "wget"} -> 9
      [] IsUmount(op) -> 11
      [] OTHER -> 0
MountRoot == <<"/mnt">>

LastOp == ops[Len(ops)]

\* C22: in both variants, the operation issued last belongs to no earlier
\* phase than any operation issued before it in the run (operations are only
\* ever appended, so the operations of a run are in the order of their
\* phases), a chroot command belongs to a phase, and a partition is mounted
\* below the target root only after the root partition was mounted.
C22_PhasesInOrder ==
    ops # <<>> =>
        /\ Phase(LastOp) # 0 =>
              \A i \in 1..(Len(ops) - 1) :
                  Phase(ops[i]) # 0 => Phase(ops[i]) <= Phase(LastOp)
        /\ LastOp.prog = "chroot" => Phase(LastOp) # 0
        /\ (IsPartMount(LastOp) /\ LastOp.args[2] # MountRoot)
              => \E i \in 1..(Len(ops) - 1) :
                    IsPartMount(ops[i]) /\ ops[i].args[2] = MountRoot
C22_Witness ==
    /\ variant = "gaming"
    /\ state.current_step = "Done"
    /\ state.is_uefi /\ state.auto_partition
    /\ state.kernel_type = <<"xanmod">>
    /\ state.gpu_type = <<"amd">>
    /\ {Phase(ops[i]) : i \in 1..Len(ops)} = 0..11

\* C23: in the main installer, a step in which perform_installation returns
\* (the process goes from the pipeline back to the event loop) leaves
\* error_message set to a non-empty text, and a set error_message is never
\* cleared by any later step.
C23_ErrorRecordedAndKept ==
    [][variant = "main" =>
         /\ (pc = "install" /\ pc' = "loop")
              => (state'.error_message # None /\ state'.error_message[1] # <<>>)
         /\ state.error_message # None
              => (state'.error_message # None /\ state'.error_message[1] # <<>>)]_vars
C23_Witness ==
    /\ variant = "main"
    /\ pc = "loop"
    /\ state.current_step = 13
    /\ active_input
    /\ state.error_message = Some(<<"Command failed: {cmd}">>)

\* the answers of the wizard
AnswerFields == {"username", "password", "root_password", "hostname", "edition", "branch",
                 "filesystem", "manual_partition", "disk", "timezone", "locale"}
Answers(st) == [f \in AnswerFields |-> st[f]]

\* C24: in the main installer, no step taken from a state with
\* current_step >= 13 changes one of the answers of the wizard, nor
\* current_step itself.
C24_AnswersFrozenAfterHandoff ==
    [][(variant = "main" /\ state.current_step >= 13)
       => (Answers(state') = Answers(state) /\ state'.current_step = state.current_step)]_vars
\* after a failed run, the operator has typed a text and confirmed it
C24_Witness ==
    /\ variant = "main"
    /\ state.current_step = 13
    /\ state.error_message # None
    /\ pc = "install"
    /\ ops # <<>>
    /\ active_input
    /\ input_buffer # <<>>

\* the disk identifier the state holds
StoredDisk == IF variant = "main" THEN state.disk ELSE state.target_disk
\* grub-install of either variant, with the disk at the end of its command
InstallsGrub(op) ==
    /\ op.prog = "chroot"
    /\ Len(op.args) = 4
    /\ op.args[4][1] \in BootCmds
    /\ op.args[4][1] # "grub-mkconfig -o /boot/grub/grub.cfg"
\* the operations that address the disk or one of its partitions
AddressesDisk(op) == Phase(op) \in {1, 2} \/ IsPartMount(op) \/ InstallsGrub(op)
\* the disk identifier an operation was given, its partition number taken off
DiskOf(op) ==
    CASE op.prog \in {"cfdisk", "sfdisk"} -> op.args[1]
      [] op.prog = "parted" -> op.args[2]
      [] op.prog = "mkfs.fat" -> Pop(op.args[2])
      [] op.prog = "mkfs.ext4" -> Pop(op.args[1])
      [] op.prog = "sh" -> Pop(Tail(Tail(op.args[2])))
      [] op.prog = "mount" -> Pop(op.args[1])
      [] op.prog = "chroot" ->
            IF variant = "main" THEN Tail(op.args[4]) ELSE Tail(Tail(Tail(op.args[4])))

\* C25: in both variants, every operation of the run that addresses the disk
\* or one of its partitions was given the identifier the state holds now: the
\* identifier has not changed since the first of them, and all of them were
\* given the same one.
C25_DiskIdentifierReused ==
    \A i \in 1..Len(ops) : AddressesDisk(ops[i]) => DiskOf(ops[i]) = StoredDisk
C25_Witness ==
    /\ variant = "gaming"
    /\ state.current_step = "Done"
    /\ state.target_disk = <<"/dev/", "sdb">>
    /\ \E i \in 1..Len(ops) : ops[i].prog = "parted"
    /\ \E i \in 1..Len(ops) : InstallsGrub(ops[i])

\* a run of the pipeline has issued the operations of some phases and has
\* more to issue
BetweenPhases ==
    \/ variant = "main" /\ pc = "install" /\ ops # <<>>
    \/ /\ variant = "gaming"
       /\ pc = "handler"
       /\ state.current_step \in {"InstallSystem", "DetectGPU", "InstallKernel", "Finalize"}
\* an iteration of run_app's loop, which starts with terminal.draw, can be taken
CanDraw == ENABLED (OtherEvent \/ GOtherKey)

\* C26: in both variants, while a run of the pipeline is between two of its
\* phases, run_app's loop can take an iteration and so draw the state.
C26_CanRepaintBetweenPhases == BetweenPhases => CanDraw

\* the loop is never at its top, where it draws, with a gaming run under way
C26_NoDrawBetweenPhases ==
    (variant = "gaming" /\ pc = "loop")
    => state.current_step \notin {"InstallSystem", "DetectGPU", "InstallKernel", "Finalize"}

(***************************************************************************)
(* perform_installation of the main installer as a function of its          *)
(* argument: it is entered with any InstallerState the type allows, the     *)
(* Option fields and the disk left as InstallerState::default() has them    *)
(* included.                                                                *)
(***************************************************************************)
PipelineInputs ==
    { [MainDefault EXCEPT !.current_step = 13,
                          !.username = <<"a">>, !.password = <<"a">>, !.root_password = <<"a">>,
                          !.branch = b, !.filesystem = f, !.edition = e, !.disk = d,
                          !.manual_partition = m] :
        b \in {None, Some("Stable")}, f \in {None, Some("Ext4")},
        e \in {None, Some("Official")}, d \in {<<>>, <<"a">>}, m \in BOOLEAN }

InitPipeline ==
    /\ variant = "main"
    /\ firmware \in {"UEFI", "BIOS"}
    /\ overflow_checks = FALSE
    /\ state \in PipelineInputs
    /\ list_state = None
    /\ input_buffer = <<>>
    /\ active_input = FALSE
    /\ pc = "install"
    /\ ip = 1
    /\ ops = <<>>
    /\ failed = FALSE
    /\ run_failed = FALSE
    /\ moves = 0
    /\ todo = <<>>
    /\ guards = <<>>

SpecPipeline == InitPipeline /\ [][MainPipelineStep]_vars

\* one of the inputs the pipeline requires is missing
InputMissing(st) ==
    st.branch = None \/ st.filesystem = None \/ st.edition = None \/ st.disk = <<>>

C27_WizardHandsOverAll ==
    (variant = "main" /\ state.current_step >= 13) => ~InputMissing(state)

\* the operations of the automatic partition layout
AutoLayoutProgs == {"sfdisk", "parted"}
\* manual partitioning was chosen and the partition phase is over
ManualPartitionDone ==
    IF variant = "main"
    THEN state.manual_partition /\ \E i \in 1..Len(ops) : Phase(ops[i]) >= 2
    ELSE /\ ~state.auto_partition
         /\ state.current_step \notin {"Welcome", "CreateUser", "SelectLocale", "PartitionDisk"}

\* C28: in both variants, when manual partitioning was chosen and the
\* partition phase is over, a partitioning tool other than those of the
\* automatic layout has been run against the chosen disk, and no operation of
\* the automatic layout has been issued.
C28_ManualRunsInteractiveTool ==
    ManualPartitionDone =>
        /\ \E i \in 1..Len(ops) :
              /\ Phase(ops[i]) = 1
              /\ ops[i].prog \notin AutoLayoutProgs
              /\ DiskOf(ops[i]) = StoredDisk
        /\ \A i \in 1..Len(ops) : ops[i].prog \notin AutoLayoutProgs

\* C29: in the gaming edition, from InstallSystem on current_step only moves
\* to the next value of InstallSystem, DetectGPU, InstallKernel, Finalize,
\* Done; once an operation issued after the handoff has returned a failing
\* outcome current_step does not change any more, and Done is not reached.
C29_LinearAndTerminal ==
    [][variant = "gaming" =>
         /\ (state.current_step \in PipelineSteps /\ state'.current_step # state.current_step)
              => StepIndex(state'.current_step) = StepIndex(state.current_step) + 1
         /\ run_failed => state'.current_step = state.current_step
         /\ state'.current_step = "Done" => ~run_failed']_vars

\* the same with "returned an error" read as the code reads it: the
\* operation could not be started, or the file could not be read
C29_TerminalOnErr ==
    [][variant = "gaming" =>
         /\ (state.current_step \in PipelineSteps /\ state'.current_step # state.current_step)
              => StepIndex(state'.current_step) = StepIndex(state.current_step) + 1
         /\ pc = "error" => state'.current_step = state.current_step
         /\ state'.current_step = "Done" => pc' # "error"]_vars

\* What the items of the list drawn at a step name, in the order drawn
\* (draw_edition_selection .. draw_locale_selection).
ShownItems(step) ==
    CASE step = 4 -> <<Some("Official"), Some("Gnome"), Some("Xfce"), Some("Blue"),
                       Some("Hydra"), Some("Cybersecurity"), Some("Wayfire"), Some("Atomic")>>
      [] step = 5 -> <<Some("Stable"), Some("Testing"), Some("Unstable")>>
      [] step = 6 -> <<Some("Btrfs"), Some("Ext4"), Some("Zfs")>>
      [] step = 7 -> <<FALSE, TRUE>>
      [] step = 10 -> <<<<"UTC">>, <<"America/New_York">>, <<"Europe/Warsaw">>>>
      [] step = 11 -> <<<<"en_US.UTF-8">>, <<"pl_PL.UTF-8">>>>
StepField(step) ==
    CASE step = 4 -> "edition"
      [] step = 5 -> "branch"
      [] step = 6 -> "filesystem"
      [] step = 7 -> "manual_partition"
      [] step = 10 -> "timezone"
      [] step = 11 -> "locale"
\* the main installer waits for an event at a list step, the cursor on an item
AtListItem ==
    /\ variant = "main"
    /\ pc = "loop"
    /\ ItemCount(state) > 0
    /\ ~active_input
    /\ draw_ui(state, list_state)[1] < ItemCount(state)
Cursor == draw_ui(state, list_state)[1]
Chosen == ShownItems(state.current_step)[Cursor + 1]

\* C30 as stated: in the main installer, an Enter at a list step with the
\* cursor on item i changes, of the answers of the wizard, only the field of
\* the step, which becomes what item i names.
C30_OnlyOwnField ==
    AtListItem =>
        Answers(AfterEnter.state) = [Answers(state) EXCEPT ![StepField(state.current_step)] = Chosen]

\* C30, amended: in the main installer, an Enter at a list step with the
\* cursor on item i sets the field of the step to what item i names, advances
\* current_step by one and clears the cursor, so that the next list is drawn
\* with the cursor on its first item; the edition step also sets
\* preview_image, and filesystem = Btrfs when the edition is Atomic; nothing
\* else changes.
C30_CommitsShownItem ==
    AtListItem =>
        LET step == state.current_step
            st1 == [state EXCEPT ![StepField(step)] = Chosen, !.current_step = step + 1]
            st2 == IF step = 4
                   THEN [st1 EXCEPT !.preview_image = TRUE,
                                    !.filesystem = IF Chosen = Some("Atomic")
                                                   THEN Some("Btrfs") ELSE @]
                   ELSE st1
        IN  /\ AfterEnter.state = st2
            /\ AfterEnter.list_state = None
            /\ ItemCount(st2) > 0 => draw_ui(st2, AfterEnter.list_state) = Some(0)
            /\ AfterEnter.active_input = active_input
            /\ AfterEnter.input_buffer = input_buffer
\* the second filesystem is about to be confirmed
C30_Witness ==
    /\ AtListItem
    /\ state.current_step = 6
    /\ Cursor = 1
    /\ AfterEnter.state.filesystem = Some("Ext4")

\* the reads of kernel.hacker that returned the file's lines
KernelReads == {k \in 1..Len(ops) : IsKernelRead(ops[k]) /\ Len(ops[k].out) = 1}
IsLiquorixInstall(op) ==
    ShellCmd(op) = <<"curl -s 'https://liquorix.net/install-liquorix.sh' | bash">>
IsXanmodInstall(op) ==
    Len(ShellCmd(op)) = 2 /\ ShellCmd(op)[1] = "apt install -y linux-xanmod-lts-"
IsXanmodOp(op) ==
    \/ op.prog = "wget"
    \/ IsCpuRead(op)
    \/ IsXanmodInstall(op)
    \/ ShellCmd(op) \in {<<"wget -qO - https://dl.xanmod.org/archive.key | gpg">>,
                         <<"echo 'deb ... xanmod' | tee xanmod-release.list">>}
IsGenericRemoval(op) == ShellCmd(op) = <<"apt remove -y linux-image-*generic">>
\* the kernel the lines of kernel.hacker ask for
SelectedKernel(content) ==
    IF \E l \in content : trim(l) = <<"[liquorix]">> THEN "liquorix"
    ELSE IF \E l \in content : trim(l) = <<"[xanmod]">> THEN "xanmod"
    ELSE "none"

\* C31: in the gaming edition, the alternate kernel is chosen by a line of
\* kernel.hacker that, once trimmed, is exactly [liquorix] or [xanmod]: with
\* neither line no kernel install or remove operation is issued and the
\* marker "Kernel installed." comes next; with both lines only the liquorix
\* operations are issued; and the default kernel package is removed only
\* after the install operation of the alternate kernel was issued.
C31_KernelByExactMarker ==
    variant = "gaming" =>
      /\ \A j \in 1..Len(ops) :
           IsGenericRemoval(ops[j])
             => \E i \in 1..(j - 1) : IsLiquorixInstall(ops[i]) \/ IsXanmodInstall(ops[i])
      /\ \A j \in 1..Len(ops) :
           (IsLiquorixInstall(ops[j]) \/ IsXanmodOp(ops[j]) \/ IsGenericRemoval(ops[j]))
             => \E k \in KernelReads : k < j
      /\ \A k \in KernelReads :
           LET sel == SelectedKernel(ops[k].out[1])
               kernel_op(op) ==
                   IsLiquorixInstall(op) \/ IsXanmodOp(op) \/ IsGenericRemoval(op)
           IN  /\ sel = "none"
                    => /\ ~Issued(kernel_op)
                       /\ state.kernel_type = <<>>
                       /\ \/ InText(state.progress, "Kernel installed.")
                          \/ /\ k = Len(ops)
                             /\ todo # <<>>
                             /\ Head(todo) = Progress("Kernel installed.")
               /\ sel = "liquorix"
                    => ~Issued(IsXanmodOp) /\ state.kernel_type = <<"liquorix">>
               /\ sel = "xanmod"
                    => ~Issued(IsLiquorixInstall) /\ state.kernel_type = <<"xanmod">>

\* kernel.hacker held both lines and the kernel phase is over
C31_Witness ==
    /\ variant = "gaming"
    /\ \E k \in KernelReads : ops[k].out[1] = {<<"[liquorix]">>, <<"[xanmod]">>}
    /\ Issued(IsGenericRemoval)
    /\ InText(state.progress, "Kernel installed.")

\* C32: in the main installer, whenever current_step is 13 or more, the
\* edition, the branch and the filesystem are set and the username, the
\* password, the root password and the disk are non-empty, and no unwrap of
\* the pipeline has panicked.
C32_PopulatedAtInstall ==
    (variant = "main" /\ state.current_step >= 13)
      => /\ state.edition # None /\ state.branch # None /\ state.filesystem # None
         /\ state.username # <<>> /\ state.password # <<>>
         /\ state.root_password # <<>> /\ state.disk # <<>>
         /\ pc # "panicked"

\* the pipeline ran after the Atomic edition skipped the filesystem list
C32_Witness ==
    /\ variant = "main"
    /\ state.current_step >= 13
    /\ state.edition = Some("Atomic")
    /\ ops # <<>>

\* C33: in the main installer, the iteration in which Ctrl+Q is pressed ends
\* the event loop and issues no external operation, and nothing is issued
\* afterwards: pressed before the summary was confirmed, no operation was
\* ever issued; pressed after a failed installation, the pipeline is not
\* started again.
C33_QuitIssuesNothing ==
    [][variant = "main" =>
         /\ state'.quit => (pc' = "exited" /\ ops' = ops)
         /\ (state'.quit /\ state'.current_step < 13) => ops' = <<>>]_vars

\* Ctrl+Q was pressed after an installation that failed
C33_Witness ==
    /\ variant = "main"
    /\ state.quit
    /\ state.error_message # None
    /\ ops # <<>>
    /\ pc = "exited"

\* a list is shown and its cursor is past the last item
CursorOutOfRange ==
    /\ variant = "main"
    /\ pc = "loop"
    /\ ~active_input
    /\ ItemCount(state) > 0
    /\ list_state # None
    /\ list_state[1] >= ItemCount(state)

\* C34: in the main installer, Enter on a list step whose cursor is past the
\* last item leaves the state and the cursor as they are on the edition,
\* branch and filesystem steps; commits UTC, respectively en_US.UTF-8, and
\* advances on the timezone and locale steps; commits automatic partitioning
\* and advances on the partition-mode step.
C34_OutOfRangeConfirm ==
    CursorOutOfRange =>
        CASE state.current_step \in {4, 5, 6} ->
                AfterEnter.state = state /\ AfterEnter.list_state = list_state
          [] state.current_step = 7 ->
                AfterEnter.state = [state EXCEPT !.manual_partition = FALSE,
                                                 !.current_step = 8]
          [] state.current_step = 10 ->
                AfterEnter.state = [state EXCEPT !.timezone = <<"UTC">>,
                                                 !.current_step = 11]
          [] state.current_step = 11 ->
                AfterEnter.state = [state EXCEPT !.locale = <<"en_US.UTF-8">>,
                                                 !.current_step = 12]

\* the cursor is past the last edition and Enter left everything in place
C34_Witness ==
    /\ CursorOutOfRange
    /\ state.current_step = 4
    /\ list_state = Some(Len(Editions))
    /\ AfterEnter.state = state

\* C35: in the gaming edition, the state mutex is never locked while a guard
\* of it is held: at most one function holds a guard, no lock() is stuck, and
\* run_app draws and reads events with no guard held.
C35_NoRelock ==
    variant = "gaming" =>
        /\ Len(guards) <= 1
        /\ pc # "deadlocked"
        /\ pc = "loop" => guards = <<>>
        /\ pc = "handler" => Len(guards) = 1

\* install_kernel holds the guard perform_installation dropped for it
C35_Witness ==
    /\ variant = "gaming"
    /\ pc = "handler"
    /\ guards = <<"install_kernel">>
    /\ state.current_step = "InstallKernel"
    /\ Issued(IsGenericRemoval)

IsReboot(op) == op.prog = "reboot"

\* C36: in the gaming edition, run_app returns as soon as current_step is
\* Done: no event is read at Done, so the Done arm of handle_key_event is
\* never run and reboot is never issued.
C36_DoneArmUnreachable ==
    variant = "gaming" =>
        /\ state.current_step = "Done" => pc = "exited"
        /\ ~Issued(IsReboot)
        /\ ~(todo # <<>> /\ Head(todo) = Cmd("reboot"))

\* the installation has run to its end and run_app has returned
C36_Witness ==
    /\ variant = "gaming"
    /\ state.current_step = "Done"
    /\ pc = "exited"
    /\ InText(state.progress, "Installation finalized.")

IsMainGrubInstall(op) ==
    /\ ShellCmd(op) # <<>>
    /\ ShellCmd(op)[1] =
         "grub-install --target=x86_64-efi --efi-directory=/boot/efi --bootloader-id=HackerOS "
IsUpdateGrub(op) == ShellCmd(op) = <<"update-grub">>
\* the removal of the installer's files, and the reboot
InstallerFiles == {<<"/usr/share/HackerOS-Installer">>, <<"/usr/bin/HackerOS-Installer">>,
                   <<"/etc/profile.d/HackerOS-Installer.sh">>}
IsFarewell(op) ==
    \/ /\ op.kind = "fs"
       /\ op.prog \in {"remove_dir_all", "remove_file"}
       /\ \E f \in InstallerFiles : op.args = <<f>>
    \/ op.prog = "reboot"
\* the operation perform_installation issues next
NextOp == perform_installation(state)[ip]

\* C37: in the main installer, the installer's files are removed and reboot
\* is issued only in a run that has issued grub-install, then update-grub,
\* then the seven cleanup unmounts, and the run goes past grub-install and
\* update-grub only when they exit with status 0: any other outcome makes
\* perform_installation return the error.
C37_FarewellAfterBootloader ==
    variant = "main" =>
      /\ (pc = "install" /\ (IsMainGrubInstall(NextOp) \/ IsUpdateGrub(NextOp)))
           => \A outcome \in Outcomes(NextOp) \ {"ok"} : ReturnsErr(NextOp, outcome)
      /\ (ops # <<>> /\ IsFarewell(LastOp))
           => \E g, u \in 1..Len(ops) :
                /\ g < u
                /\ IsMainGrubInstall(ops[g])
                /\ IsUpdateGrub(ops[u])
                /\ Cardinality({j \in (u + 1)..Len(ops) : IsUmount(ops[j])}) = 7
                /\ \A j \in 1..Len(ops) :
                     IsFarewell(ops[j]) =>
                        \A k \in 1..Len(ops) : (IsUmount(ops[k]) \/ k = u) => k < j

\* the run has gone through the bootloader and the cleanup, and reboots
C37_Witness ==
    /\ variant = "main"
    /\ ops # <<>>
    /\ LastOp.prog = "reboot"
    /\ Issued(IsMainGrubInstall)
    /\ pc = "exited"

\* the directories the EFI/boot partition is mounted on
BootDirs == {<<"/mnt/boot/efi">>, <<"/mnt", "/boot">>}
IsBootDirCreate(op) ==
    op.kind = "fs" /\ op.prog = "create_dir_all" /\ Len(op.args) = 1 /\ op.args[1] \in BootDirs
IsRootMount(op) == IsPartMount(op) /\ op.args[2] = MountRoot

\* C38: in both variants, when the directory the EFI/boot partition is mounted
\* on is created, the mount of the root partition on the target root has
\* already been issued.
C38_BootDirAfterRootMount ==
    (ops # <<>> /\ IsBootDirCreate(LastOp)) => Issued(IsRootMount)

====
